---- MODULE Spec2Model ----
(***************************************************************************)
(* Copy-trading Monte Carlo simulator of polymarket-tracker                *)
(* (backend/src/services/simulator.ts) and its HTTP entry point            *)
(* (backend/src/routes/api.ts, POST /follower-sim).                        *)
(*                                                                         *)
(* Numbers.  The code computes in IEEE doubles; the model computes in      *)
(* fixed point, every quotient rounded down:                               *)
(*   USD and GBP amounts   cents / pence                                   *)
(*   share prices          1/10000 (0.4 is 4000; the clamp 0.001..0.999 is *)
(*                         10..9990)                                       *)
(*   share quantities      1/100 share                                     *)
(*   slippage              1/100 basis point (a rounded slippage is a      *)
(*                         multiple of 100)                                *)
(*   fill ratio            1/10000 (1.0 is 10000, 0.95 is 9500)            *)
(*   time stamps           seconds; delays in milliseconds                 *)
(***************************************************************************)
EXTENDS Integers, Sequences, FiniteSets, TLC

VARIABLES
    config,          \* the server configuration read from the environment
    db,              \* the data store: leaderboard, trades_raw, markets
    estimate,        \* what getQuickEstimate returned (<<>> : not called)
    pc,              \* where the request / runSimulation is
    caller,          \* who called runSimulation: "api", "direct" or "none"
    request,         \* body of the POST /follower-sim request (<<>> : none)
    aborted,         \* TRUE once the client has given up on the request
    cfg,             \* the SimulationConfig runSimulation was called with
    httpStatus,      \* status of the HTTP response (0: none sent)
    error,           \* message of the error runSimulation threw ("" : none)
    topTraders,      \* wallet addresses of the leaderboard
    relevantTrades,  \* in-window trades of the followed wallets, by time
    traderVolumes,   \* wallet -> total in-window notional
    pending,         \* uniqueConditionIds not yet fetched / named
    marketCache,     \* conditionId -> MarketCache
    seed,            \* state of the linear congruential generator
    seed0,           \* the seed the trial loop started from (Date.now())
    i,               \* index of the current trial
    inTrial,         \* TRUE while runSingleSimulation is running
    k,               \* index of the next trade of the current trial
    portfolio,       \* PortfolioState: cash and positions
    marketExposure,  \* conditionId -> bought notional of the trial
    dailyPnl,        \* date -> realized PnL of the trial
    marketPnl,       \* conditionId -> PnL of the trial
    tradeLog,        \* SimulatedTrade log of the trial
    results,         \* final PnL of each finished trial
    allDailyPnl,     \* date -> PnLs over the trials
    allMarketPnl,    \* conditionId -> PnLs over the trials
    sampleTradeLog,  \* first entries of the first trial's log
    marketContributions, \* top markets by mean PnL, being named
    report,          \* the SimulationResults returned (<<>> : none)
    reads,           \* data-store reads of this run, in order
    runNo,           \* 1 for the first run, 2 for the repeated run
    prev,            \* what the first run used and returned (<<>> : none)
    fillIn,          \* arguments of the last calculateRealisticFill calls
    fillOut          \* their FillResults

runVars == <<pc, caller, request, aborted, cfg, httpStatus, error, topTraders, relevantTrades,
             traderVolumes, pending, marketCache, seed, seed0, i, inTrial, k,
             portfolio, marketExposure, dailyPnl, marketPnl, tradeLog,
             results, allDailyPnl, allMarketPnl, sampleTradeLog,
             marketContributions, report,
             reads, runNo, prev>>

vars == <<config, db, estimate, runVars, fillIn, fillOut>>

-----------------------------------------------------------------------------
(* Units *)

PriceScale == 10 ^ 4
ShareScale == 10 ^ 2
RatioOne   == 10 ^ 4
CentiBps   == 10 ^ 2

\* the IEEE not-a-number (0 / 0), a value below every amount of the model; the
\* operators that can meet it test for it before they compare or compute
NaN == 0 - 2 ^ 30
\* one unit of slippage (1/100 bp) as a fraction: 1 / (10000 * 100)
SlipDenom  == 10 ^ 6

Min(a, b) == IF a < b THEN a ELSE b
Max(a, b) == IF a > b THEN a ELSE b

\* floor(sqrt(n)) for 0 <= n < 2^31, by bisection (lo*lo <= n < hi*hi)
RECURSIVE SqrtBisect(_, _, _)
SqrtBisect(n, lo, hi) ==
    IF hi - lo <= 1 THEN lo
    ELSE LET mid == (lo + hi) \div 2
         IN  IF mid * mid <= n THEN SqrtBisect(n, mid, hi)
                               ELSE SqrtBisect(n, lo, mid)

ISqrt(n) == SqrtBisect(n, 0, 46341)

\* binary digits of b, most significant first
RECURSIVE Bits(_)
Bits(b) == IF b = 0 THEN <<>> ELSE Append(Bits(b \div 2), b % 2)

\* floor(a * b / c) without forming a * b (a, b >= 0, 0 < c < 2^30):
\* q and r are quotient and remainder of a * (the digits of b read so far)
RECURSIVE MulDivBits(_, _, _, _, _)
MulDivBits(a, c, bits, q, r) ==
    IF bits = <<>> THEN q
    ELSE LET d  == IF 2 * r >= c THEN 1 ELSE 0
             r3 == 2 * r - d * c + Head(bits) * (a % c)
             e  == IF r3 >= c THEN 1 ELSE 0
         IN  MulDivBits(a, c, Tail(bits),
                        2 * q + d + Head(bits) * (a \div c) + e, r3 - e * c)

\* floor(a * b / c)
MulDiv(a, b, c) == MulDivBits(a, c, Bits(b), 0, 0)

-----------------------------------------------------------------------------
(* calculateRealisticFill *)

\* clamp of a share price to 0.001 .. 0.999
MinSharePrice == 10
MaxSharePrice == 9990
\* slippage of an order beyond both tiers: 500 bps
LargeOrderSlippage == 50000
\* cap of the estimated slippage without an orderbook: 50 bps
MaxBaseSlippage == 5000
\* fillRatio from which an order counts as filled: 0.95
FilledRatio == 9500

\* a clamp that forgets the lower end of the share-price domain
ClampAbove(p) == IF p > MaxSharePrice THEN MaxSharePrice ELSE p

ClampPrice(p) == Max(MinSharePrice, Min(MaxSharePrice, p))

\* price * (1 + sign * slippage / 10000), sign +1 for BUY and -1 for SELL
SlippedPrice(side, price, slip) ==
    price + (((IF side = "BUY" THEN 1 ELSE -1) * price * slip) \div SlipDenom)

\* an impact that is taken off the slippage instead of added to it
ImpactRebate(sizeUsd, marketImpactEnabled, dailyVolume) ==
    IF marketImpactEnabled /\ dailyVolume > 0
    THEN 0 - ISqrt(MulDiv(sizeUsd, 10 ^ 8, dailyVolume))
    ELSE 0

\* Math.sqrt(sizeUsd / dailyVolume) * 100 bps
ImpactRule(sizeUsd, marketImpactEnabled, dailyVolume) ==
    IF marketImpactEnabled /\ dailyVolume > 0
    THEN ISqrt(MulDiv(sizeUsd, 10 ^ 8, dailyVolume))
    ELSE 0

\* Math.round of a slippage: to the nearest whole basis point, halves up
RoundBps(slip) == ((slip + 50) \div CentiBps) * CentiBps

\* the branch without orderbook data (orderbook = <<>>)
FillWithoutOrderbook(side, sizeUsd, basePrice) ==
    IF sizeUsd = NaN
    THEN \* Math.min, Math.max and Math.sqrt of NaN are NaN
         [avgPrice |-> NaN, slippageBps |-> NaN, filled |-> TRUE, fillRatio |-> RatioOne]
    ELSE
    LET baseSlippage == Min(MaxBaseSlippage, ISqrt(100 * sizeUsd))
    IN  [avgPrice    |-> ClampPrice(SlippedPrice(side, basePrice, baseSlippage)),
         slippageBps |-> baseSlippage,
         filled      |-> TRUE,
         fillRatio   |-> RatioOne]

RelevantDepth(side, ob) ==
    IF side = "BUY" THEN ob.askDepth100bps ELSE ob.bidDepth100bps

DeeperDepth(side, ob) ==
    IF side = "BUY" THEN ob.askDepth500bps ELSE ob.bidDepth500bps

\* the depth comparisons taken as >= : an order of exactly the depth counts
\* as exceeding it
DepthSlippageAtDepth(sizeUsd, spreadBps, relevantDepth, deeperDepth) ==
    IF sizeUsd >= relevantDepth
    THEN IF sizeUsd >= deeperDepth
         THEN LargeOrderSlippage
         ELSE spreadBps * 50 + MulDiv(sizeUsd, 100 * CentiBps, relevantDepth)
    ELSE spreadBps * 50

\* slippage before market impact, from the depth of the order's side
DepthSlippage(sizeUsd, spreadBps, relevantDepth, deeperDepth) ==
    IF sizeUsd > relevantDepth
    THEN IF sizeUsd > deeperDepth
         THEN LargeOrderSlippage
         ELSE spreadBps * 50 + MulDiv(sizeUsd, 100 * CentiBps, relevantDepth)
    ELSE spreadBps * 50

\* an order that is always filled in full
AlwaysFilled(sizeUsd, relevantDepth, deeperDepth) == RatioOne

DepthFillRatio(sizeUsd, relevantDepth, deeperDepth) ==
    IF sizeUsd > relevantDepth /\ sizeUsd > deeperDepth
    THEN Min(RatioOne, MulDiv(deeperDepth, RatioOne, sizeUsd))
    ELSE RatioOne

FillWithOrderbook(side, sizeUsd, ob, marketImpactEnabled, dailyVolume) ==
    LET relevantDepth == RelevantDepth(side, ob)
        deeperDepth   == DeeperDepth(side, ob)
        fillRatio     == DepthFillRatio(sizeUsd, relevantDepth, deeperDepth)
        slippageBps   == DepthSlippage(sizeUsd, ob.spreadBps, relevantDepth, deeperDepth)
                         + ImpactRule(sizeUsd, marketImpactEnabled, dailyVolume)
    IN  [avgPrice    |-> ClampPrice(SlippedPrice(side, ob.midPrice, slippageBps)),
         slippageBps |-> RoundBps(slippageBps),
         filled      |-> fillRatio >= FilledRatio,
         fillRatio   |-> fillRatio]

calculateRealisticFill(side, sizeUsd, orderbook, marketImpactEnabled, dailyVolume, basePrice) ==
    IF orderbook = <<>>
    THEN FillWithoutOrderbook(side, sizeUsd, basePrice)
    ELSE FillWithOrderbook(side, sizeUsd, orderbook[1], marketImpactEnabled, dailyVolume)

-----------------------------------------------------------------------------
(* Inputs: the data store and the configurations *)

Day == 24 * 60 * 60
\* Date.now(), in seconds
NowSec == 40 * Day

Trade(w, c, sd, o, sz, pr, usdc, ts) ==
    [walletAddress |-> w, conditionId |-> c, side |-> sd, outcome |-> o,
     size |-> sz, price |-> pr, usdcSize |-> usdc, timestamp |-> ts]

Entry(w, roi, pnl) == [walletAddress |-> w, roiPercent |-> roi, totalPnl |-> pnl]

\* a Market row; winningOutcome "" and dailyVolume 0 are the absent (undefined)
\* values. lastPriceYes 0 is undefined unless lastPriceKnown: a price of 0 in
\* the table, which JavaScript's || cannot tell from undefined
Market(t, closed, win, vol, last) ==
    [title |-> t, isClosed |-> closed, winningOutcome |-> win,
     dailyVolume |-> vol, lastPriceYes |-> last, lastPriceKnown |-> last # 0]

Leaderboards ==
    [none |-> <<>>,
     one  |-> <<Entry("w1", 12, 500)>>,
     two  |-> <<Entry("w1", 12, 500), Entry("w2", -3, 80)>>]

SettledYes == Market("Settled market", TRUE, "YES", 5000000, 9900)
OpenMkt    == Market("Open market", FALSE, "", 0, 6000)
\* a market not settled yet whose Yes outcome last traded at 0
DecidedMkt == [Market("Decided market", FALSE, "", 0, 0) EXCEPT !.lastPriceKnown = TRUE]

MarketTables ==
    [settled |-> [c \in {"m1"} |-> SettledYes],
     both    |-> [c \in {"m1", "m2"} |-> IF c = "m1" THEN SettledYes ELSE OpenMkt],
     open    |-> [c \in {"m2"} |-> OpenMkt],
     decided |-> [c \in {"m1", "m2"} |-> DecidedMkt]]

\* one BUY of $50 at 0.40
BuyM1 == Trade("w1", "m1", "BUY", "Yes", 12500, 4000, 5000, 39 * Day)

\* more markets than the report keeps
ManyMarketIds ==
    <<"c01", "c02", "c03", "c04", "c05", "c06", "c07", "c08", "c09", "c10", "c11", "c12">>

\* one BUY of $50 in each of them, at prices 0.10 .. 0.65 in no order
ManyMarketBuys ==
    [j \in DOMAIN ManyMarketIds |->
        Trade("w1", ManyMarketIds[j], "BUY", "Yes", 10000,
              1000 + ((j * 7) % Len(ManyMarketIds)) * 500, 5000, 39 * Day + j)]

\* trades of the longest history: more than a trial's log holds
MaxTrades == 53

\* SELLs of an outcome that is never held: each is filled and logged
ManySells ==
    [j \in 1..MaxTrades |->
        Trade("w1", "m1", "SELL", "Yes", 10000, 5000, 5000, 39 * Day + j)]

TradeTables ==
    [none      |-> <<>>,
     manySells |-> ManySells,
     oneBuy    |-> <<BuyM1>>,
     \* the SELL, at a lower price, asks for more shares than are held
     oversell  |-> <<Trade("w1", "m1", "SELL", "Yes", 20000, 3000, 0, 39 * Day + 600),
                     BuyM1>>,
     \* a SELL with nothing held, a partial SELL, and a trade out of the window
     mixed     |-> <<Trade("w2", "m2", "SELL", "No", 10000, 5000, 5000, 38 * Day),
                     Trade("w1", "m1", "BUY", "Yes", 10000, 2000, 2000, 2 * Day),
                     Trade("w2", "m2", "BUY", "No", 40000, 4500, 18000, 38 * Day + 60),
                     Trade("w1", "m2", "BUY", "No", 10000, 5000, 5000, 39 * Day),
                     Trade("w2", "m2", "SELL", "No", 2000, 6000, 1200, 39 * Day + 30)>>,
     manyMarkets |-> ManyMarketBuys,
     \* the only trade of w1 has no notional (size 0) and sells what is not
     \* held: under proportional sizing a size of 0 / 0 reaches the log alone
     zeroSell  |-> <<Trade("w1", "m1", "SELL", "Yes", 0, 5000, 0, 39 * Day),
                     Trade("w2", "m2", "BUY", "No", 10000, 5000, 5000, 39 * Day + 60)>>,
     \* a position sold on two days, the first SELL seconds before midnight UTC
     twoDays   |-> <<Trade("w1", "m1", "BUY", "Yes", 25000, 2000, 5000, 37 * Day),
                     Trade("w1", "m1", "SELL", "Yes", 4000, 5000, 2000, 38 * Day - 10),
                     Trade("w1", "m1", "SELL", "Yes", 4000, 6000, 2400, 39 * Day)>>,
     \* trades of a wallet that is not followed
     strangers |-> <<Trade("w3", "m1", "BUY", "Yes", 12500, 4000, 5000, 39 * Day)>>]

Store(l, t, m) ==
    [leaderboard |-> Leaderboards[l], trades |-> TradeTables[t], markets |-> MarketTables[m]]

Stores ==
    {Store("none", "oneBuy", "settled"),
     Store("one", "none", "settled"),
     Store("one", "strangers", "settled"),
     Store("one", "oneBuy", "settled"),
     Store("one", "oversell", "settled"),
     Store("two", "oversell", "open"),
     Store("two", "mixed", "both"),
     Store("two", "mixed", "open"),
     Store("one", "manyMarkets", "open"),
     Store("one", "twoDays", "open"),
     Store("one", "oneBuy", "decided"),
     Store("two", "mixed", "decided"),
     Store("two", "mixed", "settled"),
     Store("two", "zeroSell", "both"),
     Store("one", "manySells", "settled")}

\* SimulationConfigSchema: the bounds and the defaults
MinBankrollGbp == 10
MaxBankrollGbp == 100000
MaxEntryDelaySec == 3600
MaxDelayVarianceSec == 300
MinMaxExposurePct == 1
MaxMaxExposurePct == 100
MaxMinTradeUsd == 10000
MinNumSimulations == 100
MaxNumSimulations == 5000
MinWindowDays == 1
MaxWindowDays == 30

DefaultConfig ==
    [bankrollGbp |-> 100, entryDelaySec |-> 60, delayVarianceSec |-> 30,
     sizingRule |-> "equal", maxExposurePct |-> 10, minTradeUsd |-> 10,
     useActualOrderbook |-> TRUE, marketImpactEnabled |-> TRUE,
     numSimulations |-> 1000, windowDays |-> 7]

\* largest trial count of a direct call of runSimulation in the model
MaxTrials == 3

\* configurations runSimulation is called with directly
Configs ==
    LET variants ==
          {DefaultConfig,
           [DefaultConfig EXCEPT !.sizingRule = "proportional", !.bankrollGbp = 1000],
           [DefaultConfig EXCEPT !.maxExposurePct = 1, !.marketImpactEnabled = FALSE],
           [DefaultConfig EXCEPT !.minTradeUsd = 0, !.maxExposurePct = 100,
                                 !.bankrollGbp = 1000],
           [DefaultConfig EXCEPT !.minTradeUsd = 100],
           [DefaultConfig EXCEPT !.sizingRule = "proportional", !.minTradeUsd = 0],
           \* the smallest bankroll, nothing held back by the exposure cap
           [DefaultConfig EXCEPT !.bankrollGbp = MinBankrollGbp,
                                 !.maxExposurePct = MaxMaxExposurePct]}
    IN  {[c EXCEPT !.numSimulations = n] : c \in variants, n \in 1..MaxTrials}

\* config.MAX_SIMULATIONS_PER_REQUEST when the environment does not set it
MaxSimulationsPerRequest == 5000

\* the server configuration of an unconfigured deployment
DefaultServerConfig == [MAX_SIMULATIONS_PER_REQUEST |-> MaxSimulationsPerRequest]

\* server configurations: MAX_SIMULATIONS_PER_REQUEST is any number the
\* environment gives (z.coerce.number()), here one below the schema's
\* smallest numSimulations and the default
ServerConfigs ==
    {[MAX_SIMULATIONS_PER_REQUEST |-> n] : n \in {50, MaxSimulationsPerRequest}}

\* values of Date.now() the generator is seeded with, modulo its modulus
Seeds == {0, 77777, 150000}

\* arguments of calculateRealisticFill
Orderbooks ==
    {<<>>} \cup
    {<<ob>> : ob \in [spreadBps : {0, 5, 100}, midPrice : {10, 4000, 9960},
                      askDepth100bps : {10000, 100000}, bidDepth100bps : {20000},
                      askDepth500bps : {50000, 500000}, bidDepth500bps : {5000, 400000}]}

\* notionals, in cents
FillSizes == {0, 5000, 20000, 60000, 600000}

FillArgs ==
    [side : {"BUY", "SELL"}, sizeUsd : FillSizes,
     orderbook : Orderbooks, marketImpactEnabled : BOOLEAN,
     dailyVolume : {0, 100000, 10000000}, basePrice : {5, 4000, 9985}]

-----------------------------------------------------------------------------
(* Initial state *)

\* before POST /follower-sim arrives and before runSimulation is called
Idle ==
    /\ pc = "idle"
    /\ caller = "none"
    /\ request = <<>>
    /\ aborted = FALSE
    /\ cfg = DefaultConfig
    /\ httpStatus = 0
    /\ error = ""
    /\ topTraders = <<>>
    /\ relevantTrades = <<>>
    /\ traderVolumes = <<>>
    /\ pending = <<>>
    /\ marketCache = <<>>
    /\ seed = 0
    /\ seed0 = 0
    /\ i = 0
    /\ inTrial = FALSE
    /\ k = 0
    /\ portfolio = [cash |-> 0, positions |-> <<>>]
    /\ marketExposure = <<>>
    /\ dailyPnl = <<>>
    /\ marketPnl = <<>>
    /\ tradeLog = <<>>
    /\ results = <<>>
    /\ allDailyPnl = <<>>
    /\ allMarketPnl = <<>>
    /\ sampleTradeLog = <<>>
    /\ marketContributions = <<>>
    /\ report = <<>>
    /\ reads = <<>>
    /\ runNo = 1
    /\ prev = <<>>

Init ==
    /\ config = DefaultServerConfig
    /\ db \in Stores
    /\ Idle
    /\ estimate = <<>>
    /\ fillIn = <<>>
    /\ fillOut = <<>>

-----------------------------------------------------------------------------
(* Helpers: insertion-ordered maps (JS Map), sorting, statistics *)

\* a Map is the sequence of its entries [key, val] in insertion order
Has(m, key) == \E j \in DOMAIN m : m[j].key = key
IndexOf(m, key) == CHOOSE j \in DOMAIN m : m[j].key = key
Get(m, key, default) == IF Has(m, key) THEN m[IndexOf(m, key)].val ELSE default
Put(m, key, v) ==
    IF Has(m, key) THEN [m EXCEPT ![IndexOf(m, key)].val = v]
    ELSE Append(m, [key |-> key, val |-> v])

\* arr.reduce((a, b) => a + b, 0); the sequence is summed by halves
RECURSIVE SumSeq(_)
SumSeq(q) ==
    IF Len(q) = 0 THEN 0
    ELSE IF Len(q) = 1 THEN q[1]
    ELSE SumSeq(SubSeq(q, 1, Len(q) \div 2)) + SumSeq(SubSeq(q, Len(q) \div 2 + 1, Len(q)))

\* arr.sort((a, b) => a - b): the element at index a goes to the place after
\* the smaller elements and the equal elements before it
SortAsc(q) ==
    LET place(a) == Cardinality({b \in DOMAIN q : q[b] < q[a] \/ (q[b] = q[a] /\ b < a)}) + 1
    IN  IF q = <<>> THEN <<>>
        ELSE [j \in 1..Len(q) |-> q[CHOOSE a \in DOMAIN q : place(a) = j]]

\* trades by timestamp, ascending, equal timestamps in their given order
\* ORDER BY timestamp ASC: the row at index a goes to the place after the
\* earlier rows and the rows of the same second before it
SortByTimestamp(q) ==
    LET place(a) == Cardinality({b \in DOMAIN q :
                        \/ q[b].timestamp < q[a].timestamp
                        \/ (q[b].timestamp = q[a].timestamp /\ b < a)}) + 1
    IN  IF q = <<>> THEN <<>>
        ELSE [p \in 1..Len(q) |-> q[CHOOSE a \in DOMAIN q : place(a) = p]]

\* the contributions left in the order of the map
InMapOrder(q) == q

\* market contributions by pnlContribution, descending, ties in given order
RECURSIVE InsertContribution(_, _)
InsertContribution(q, x) ==
    IF q = <<>> THEN <<x>>
    ELSE IF Head(q).pnlContribution >= x.pnlContribution
         THEN <<Head(q)>> \o InsertContribution(Tail(q), x)
    ELSE <<x>> \o q

RECURSIVE SortByContribution(_)
SortByContribution(q) ==
    IF q = <<>> THEN <<>>
    ELSE InsertContribution(SortByContribution(SubSeq(q, 1, Len(q) - 1)), q[Len(q)])

\* daily breakdown rows by date, ascending
RECURSIVE InsertDay(_, _)
InsertDay(q, x) ==
    IF q = <<>> THEN <<x>>
    ELSE IF Head(q).date <= x.date THEN <<Head(q)>> \o InsertDay(Tail(q), x)
    ELSE <<x>> \o q

RECURSIVE SortByDate(_)
SortByDate(q) ==
    IF q = <<>> THEN <<>> ELSE InsertDay(SortByDate(SubSeq(q, 1, Len(q) - 1)), q[Len(q)])

FirstN(q, n) == SubSeq(q, 1, Min(n, Len(q)))

\* percentile = (arr, p) => arr[Math.floor(arr.length * p)] || 0, p in percent
percentile(arr, p) ==
    LET idx == (Len(arr) * p) \div 100
    IN  IF idx + 1 \in DOMAIN arr THEN arr[idx + 1] ELSE 0

mean(arr) == SumSeq(arr) \div Len(arr)

stdDev(arr) ==
    LET m == mean(arr)
    IN  ISqrt(SumSeq([j \in DOMAIN arr |-> (arr[j] - m) * (arr[j] - m)]) \div Len(arr))

\* returnStdDev > 0 ? avgReturn / returnStdDev : 0, in thousandths
SharpeRatio(arr) ==
    IF stdDev(arr) > 0 THEN (mean(arr) * 1000) \div stdDev(arr) ELSE 0

-----------------------------------------------------------------------------
(* runSimulation: setup *)

\* config.GBP_USD_RATE, 1.27, in cents per pound
GbpUsdRate == 127
\* getLeaderboard('realized_pnl', 10)
LeaderboardLimit == 10
\* the assumed daily volume, 100000 USD, of a market without one
DefaultDailyVolume == 10000000
\* the assumed price, 0.5, of a market without a last price
DefaultLastPrice == 5000

initialCash == cfg.bankrollGbp * GbpUsdRate
allocationPerTrader == initialCash \div Len(topTraders)
maxExposureUsd == (initialCash * cfg.maxExposurePct) \div 100

\* trade.usdcSize || trade.size * trade.price
TradeUsd(t) ==
    IF t.usdcSize # 0 THEN t.usdcSize ELSE (t.size * t.price) \div PriceScale

Read(op, arg) == [op |-> op, arg |-> arg, during |-> pc]

HttpStatusOf(status) == IF caller = "api" THEN status ELSE 0

\* a direct call runSimulation(cfg)
CallRunSimulation ==
    /\ pc = "idle"
    /\ fillIn = <<>>
    /\ \E c \in Configs : cfg' = c
    /\ caller' = "direct"
    /\ pc' = "leaderboard"
    /\ UNCHANGED <<config, db, estimate, aborted, httpStatus, error, topTraders, relevantTrades, traderVolumes,
                   pending, marketCache, seed, seed0, i, inTrial, k, portfolio,
                   marketExposure, dailyPnl, marketPnl, tradeLog, results,
                   allDailyPnl, allMarketPnl, sampleTradeLog, marketContributions,
                   report, reads, runNo, prev, request, fillIn, fillOut>>

\* dataStore.getLeaderboard and the empty-leaderboard check
LoadLeaderboard ==
    /\ pc = "leaderboard"
    /\ LET leaderboard == FirstN(db.leaderboard, LeaderboardLimit)
       IN  /\ topTraders' = [j \in DOMAIN leaderboard |-> leaderboard[j].walletAddress]
           /\ IF Len(leaderboard) = 0
              THEN /\ error' = "No traders in leaderboard"
                   /\ pc' = "failed"
                   /\ httpStatus' = HttpStatusOf(500)
              ELSE /\ pc' = "trades"
                   /\ UNCHANGED <<error, httpStatus>>
    /\ reads' = Append(reads, Read("getLeaderboard", "realized_pnl"))
    /\ UNCHANGED <<config, db, estimate, aborted, caller, cfg, relevantTrades, traderVolumes, pending, marketCache,
                   seed, seed0, i, inTrial, k, portfolio, marketExposure, dailyPnl,
                   marketPnl, tradeLog, results, allDailyPnl, allMarketPnl,
                   sampleTradeLog, marketContributions, report, runNo, prev, request,
                   fillIn, fillOut>>

\* dataStore.getTradesSince(timestampMs): the rows from the time on, by time
getTradesSince(timestampSec) ==
    SortByTimestamp(SelectSeq(db.trades, LAMBDA t : t.timestamp >= timestampSec))

\* the in-window trades of the followed wallets, by timestamp
RelevantTradesOf(allTrades, traders) ==
    SortByTimestamp(SelectSeq(allTrades,
        LAMBDA t : \E j \in DOMAIN traders : traders[j] = t.walletAddress))

\* the indices at which a key is met for the first time, in ascending order:
\* the insertion order of a Map or Set filled from the keys one by one
FirstSeen(keys) ==
    LET firsts == {j \in DOMAIN keys : \A l \in 1..(j - 1) : keys[l] # keys[j]}
    IN  IF keys = <<>> THEN <<>>
        ELSE [p \in 1..Cardinality(firsts) |->
                 CHOOSE j \in firsts : Cardinality({l \in firsts : l < j}) = p - 1]

\* traderVolumes: for every wallet, in the order of its first trade, the sum
\* of the notional of its trades
TraderVolumesOf(trades) ==
    LET firsts == FirstSeen([j \in DOMAIN trades |-> trades[j].walletAddress])
    IN  [p \in DOMAIN firsts |->
            [key |-> trades[firsts[p]].walletAddress,
             val |-> SumSeq([j \in DOMAIN trades |->
                         IF trades[j].walletAddress = trades[firsts[p]].walletAddress
                         THEN TradeUsd(trades[j]) ELSE 0])]]

\* [...new Set(trades.map(t => t.conditionId))]
UniqueConditionIds(trades) ==
    LET firsts == FirstSeen([j \in DOMAIN trades |-> trades[j].conditionId])
    IN  [p \in DOMAIN firsts |-> trades[firsts[p]].conditionId]

\* dataStore.getTradesSince, the filter to the followed wallets, the volumes
LoadTrades ==
    /\ pc = "trades"
    /\ LET windowStart == NowSec - cfg.windowDays * Day
           allTrades   == getTradesSince(windowStart)
           relevant    == RelevantTradesOf(allTrades, topTraders)
       IN  /\ relevantTrades' = relevant
           /\ traderVolumes' = TraderVolumesOf(relevant)
           /\ pending' = UniqueConditionIds(relevant)
           /\ reads' = Append(reads, Read("getTradesSince", "windowStart"))
    /\ marketCache' = <<>>
    /\ pc' = "prefetch"
    /\ UNCHANGED <<config, db, estimate, aborted, caller, cfg, httpStatus, error, topTraders, seed, seed0, i,
                   inTrial, k, portfolio, marketExposure, dailyPnl, marketPnl,
                   tradeLog, results, allDailyPnl, allMarketPnl, sampleTradeLog,
                   marketContributions, report, runNo, prev, request, fillIn, fillOut>>

\* the MarketCache entry made of a Market row
CacheEntry(market) ==
    [dailyVolume    |-> IF market.dailyVolume # 0 THEN market.dailyVolume
                        ELSE DefaultDailyVolume,
     isClosed       |-> market.isClosed,
     winningOutcome |-> market.winningOutcome,
     lastPriceYes   |-> IF market.lastPriceYes # 0 THEN market.lastPriceYes
                        ELSE DefaultLastPrice]

\* one turn of the pre-fetch loop: dataStore.getMarket(conditionId)
FetchMarket ==
    /\ pc = "prefetch"
    /\ pending # <<>>
    /\ LET conditionId == Head(pending)
       IN  /\ reads' = Append(reads, Read("getMarket", conditionId))
           /\ marketCache' =
                 IF conditionId \in DOMAIN db.markets
                 THEN Put(marketCache, conditionId, CacheEntry(db.markets[conditionId]))
                 ELSE marketCache
    /\ pending' = Tail(pending)
    /\ UNCHANGED <<config, db, estimate, aborted, pc, caller, cfg, httpStatus, error, topTraders, relevantTrades,
                   traderVolumes, seed, seed0, i, inTrial, k, portfolio,
                   marketExposure, dailyPnl, marketPnl, tradeLog, results,
                   allDailyPnl, allMarketPnl, sampleTradeLog, marketContributions,
                   report, runNo, prev, request, fillIn, fillOut>>

\* a generator whose state outlives the call: the second run goes on from
\* where the first one stopped
SeedCarriedOver(now) == IF runNo = 2 THEN seed ELSE now

\* the seed the generator starts from: let seed = Date.now()
SeedAtStart(now) == now

\* the context is built and the generator seeded; the trial loop starts
StartTrials ==
    /\ pc = "prefetch"
    /\ pending = <<>>
    /\ \E now \in Seeds :
          /\ seed' = SeedAtStart(now)
          /\ seed0' = now
    /\ results' = <<>>
    /\ allDailyPnl' = <<>>
    /\ allMarketPnl' = <<>>
    /\ sampleTradeLog' = <<>>
    /\ i' = 0
    /\ pc' = "trials"
    /\ UNCHANGED <<config, db, estimate, aborted, caller, cfg, httpStatus, error, topTraders, relevantTrades,
                   traderVolumes, pending, marketCache, inTrial, k, portfolio,
                   marketExposure, dailyPnl, marketPnl, tradeLog,
                   marketContributions, report, reads, runNo, prev, request, fillIn, fillOut>>

-----------------------------------------------------------------------------
(* runSingleSimulation: one trial *)

LcgMultiplier == 9301
LcgIncrement == 49297
LcgModulus == 233280

\* seed = (seed * 9301 + 49297) % 233280; the call returns seed / 233280.
\* The product is formed in two parts to stay within the integers of TLC.
seededRandom(s) ==
    (((s * (LcgMultiplier \div 100)) % LcgModulus) * 100
        + s * (LcgMultiplier % 100) + LcgIncrement) % LcgModulus

\* (rng() - 0.5) * 2 * delayVarianceSec seconds on top of entryDelaySec, in ms
DelayMs(r) ==
    cfg.entryDelaySec * 1000
    + ((r - LcgModulus \div 2) * cfg.delayVarianceSec * 25) \div (LcgModulus \div 80)

\* trade.price * (1 + drift), drift = (rng() - 0.5) * 0.02
PriceAtEntry(price, r) ==
    price + ((price * (r - LcgModulus \div 2)) \div (50 * LcgModulus))

\* equal sizing: Math.max(5, Math.min(50, initialCash / 20))
EqualSize == Max(500, Min(5000, initialCash \div 20))

\* ctx.traderVolumes.get(trade.walletAddress) || tradeUsd
TraderVolume(t) ==
    IF Get(traderVolumes, t.walletAddress, 0) # 0
    THEN Get(traderVolumes, t.walletAddress, 0)
    ELSE TradeUsd(t)

\* proportional sizing, clamped to 5 .. 100 USD; 0 / 0 is NaN, and so are
\* Math.min and Math.max of it
ProportionalSize(t) ==
    IF TraderVolume(t) = 0
    THEN NaN
    ELSE Max(500, Min(10000, MulDiv(TradeUsd(t), allocationPerTrader, TraderVolume(t))))

RequestedSize(t) ==
    IF cfg.sizingRule = "equal" THEN EqualSize ELSE ProportionalSize(t)

\* a size that ignores the exposure already taken in the market
Untrimmed(size, currentExposure) == size

\* the market exposure limit
TrimToExposure(size, currentExposure) ==
    IF size # NaN /\ currentExposure + size > maxExposureUsd
    THEN Max(0, maxExposureUsd - currentExposure)
    ELSE size

\* a SELL of all the requested shares, whatever is held
SellRequested(shares, held) == shares

\* shares leaving a position on a SELL: Math.min(shares, existing.size)
SellShares(shares, held) == Min(shares, held)

\* the proceeds of the SELL taken for its PnL
SellProceeds(fillPrice, avgPrice, sellShares) ==
    (fillPrice * sellShares) \div PriceScale

\* pnl of a SELL: (fill.avgPrice - existing.avgPrice) * sellShares
SellPnl(fillPrice, avgPrice, sellShares) ==
    ((fillPrice - avgPrice) * sellShares) \div PriceScale

\* the only first entries of a trial that are logged
MaxTradeLog == 50
\* entries of the first trial's log kept as the sample
SampleLogSize == 20
\* markets kept in the report
TopMarkets == 10

PosKey(t) == <<t.conditionId, t.outcome>>

\* existing.size, 0 where the position was never opened
HeldBefore(positions, t) ==
    IF Has(positions, PosKey(t)) THEN Get(positions, PosKey(t), <<>>).size ELSE 0

\* a position whose average price is the price of its last BUY
PositionsAtLastPrice(positions, t, shares, price) ==
    Put(positions, PosKey(t),
        [size |-> HeldBefore(positions, t) + shares, avgPrice |-> price,
         outcome |-> t.outcome, conditionId |-> t.conditionId])

\* portfolio.positions after a BUY of shares at price
PositionsAfterBuy(positions, t, shares, price) ==
    IF Has(positions, PosKey(t))
    THEN LET existing == Get(positions, PosKey(t), <<>>)
             newSize  == existing.size + shares
         IN  Put(positions, PosKey(t),
                 [existing EXCEPT
                    !.avgPrice = (existing.avgPrice * existing.size + price * shares)
                                 \div newSize,
                    !.size = newSize])
    ELSE Put(positions, PosKey(t),
             [size |-> shares, avgPrice |-> price, outcome |-> t.outcome,
              conditionId |-> t.conditionId])

\* a SELL that carries its fill price into the position it sells from
PositionsRepricedOnSell(positions, t, sellShares, price) ==
    Put(positions, PosKey(t),
        [Get(positions, PosKey(t), <<>>) EXCEPT !.size = @ - sellShares,
                                                !.avgPrice = price])

\* portfolio.positions after a SELL: existing.size -= sellShares
PositionsAfterSell(positions, t, sellShares, price) ==
    Put(positions, PosKey(t),
        [Get(positions, PosKey(t), <<>>) EXCEPT !.size = @ - sellShares])

\* a record whose partialFill flag repeats the filled flag
LogEntryFlagKept(t, entryTime, priceAtEntry, fill, shares, actualSizeUsd) ==
    [originalTrade      |-> t,
     simulatedEntryTime |-> entryTime,
     intendedPrice      |-> t.price,
     actualEntryPrice   |-> fill.avgPrice,
     priceMovement      |-> priceAtEntry - t.price,
     slippageBps        |-> fill.slippageBps,
     positionSize       |-> shares,
     positionSizeUsd    |-> actualSizeUsd,
     exitPrice          |-> 0,
     pnl                |-> 0,
     partialFill        |-> fill.filled,
     marketImpact       |-> IF ~cfg.marketImpactEnabled THEN 0
                            ELSE IF fill.slippageBps = NaN THEN NaN
                            ELSE (fill.slippageBps * 3) \div 10]

\* tradeLog.push({...}): the SimulatedTrade of a fill
LogEntry(t, entryTime, priceAtEntry, fill, shares, actualSizeUsd) ==
    [originalTrade      |-> t,
     simulatedEntryTime |-> entryTime,
     intendedPrice      |-> t.price,
     actualEntryPrice   |-> fill.avgPrice,
     priceMovement      |-> priceAtEntry - t.price,
     slippageBps        |-> fill.slippageBps,
     positionSize       |-> shares,
     positionSizeUsd    |-> actualSizeUsd,
     exitPrice          |-> 0,
     pnl                |-> 0,
     partialFill        |-> ~fill.filled,
     marketImpact       |-> IF ~cfg.marketImpactEnabled THEN 0
                            ELSE IF fill.slippageBps = NaN THEN NaN
                            ELSE (fill.slippageBps * 3) \div 10]

\* a trial that goes on with the portfolio, exposure and maps the trial before
\* it left
BeginTrialOnLeftovers ==
    /\ pc = "trials"
    /\ ~inTrial
    /\ i < cfg.numSimulations
    /\ inTrial' = TRUE
    /\ k' = 1
    /\ UNCHANGED <<config, db, estimate, aborted, pc, caller, cfg, httpStatus, error, topTraders,
                   relevantTrades, traderVolumes, pending, marketCache, seed, seed0, i,
                   portfolio, tradeLog, dailyPnl, marketPnl, marketExposure, results,
                   allDailyPnl, allMarketPnl, sampleTradeLog, marketContributions,
                   report, reads, runNo, prev, request, fillIn, fillOut>>

\* runSingleSimulation starts: a new portfolio, empty maps and log
BeginTrial ==
    /\ pc = "trials"
    /\ ~inTrial
    /\ i < cfg.numSimulations
    /\ inTrial' = TRUE
    /\ k' = 1
    /\ portfolio' = [cash |-> initialCash, positions |-> <<>>]
    /\ tradeLog' = <<>>
    /\ dailyPnl' = <<>>
    /\ marketPnl' = <<>>
    /\ marketExposure' = <<>>
    /\ UNCHANGED <<config, db, estimate, aborted, pc, caller, cfg, httpStatus, error, topTraders, relevantTrades,
                   traderVolumes, pending, marketCache, seed, seed0, i, results,
                   allDailyPnl, allMarketPnl, sampleTradeLog, marketContributions,
                   report, reads, runNo, prev, request, fillIn, fillOut>>

\* the trade is skipped: nothing of the trial changes
SkipTrade ==
    UNCHANGED <<portfolio, marketExposure, dailyPnl, marketPnl, tradeLog, fillIn, fillOut>>

\* a log without a cap
PushAlways(log, entry) == Append(log, entry)

\* if (tradeLog.length < 50) tradeLog.push({...})
PushToLog(log, entry) ==
    IF Len(log) < MaxTradeLog THEN Append(log, entry) ELSE log

\* positionSizeUsd * fill.fillRatio
ActualSizeUsd(positionSizeUsd, fillRatio) ==
    IF positionSizeUsd = NaN THEN NaN
    ELSE (positionSizeUsd * fillRatio) \div RatioOne

\* a daily volume without the default for a market that is not cached
DailyVolumeIfCached(conditionId) ==
    IF Has(marketCache, conditionId)
    THEN Get(marketCache, conditionId, <<>>).dailyVolume
    ELSE 0

\* market?.dailyVolume || 100000
DailyVolumeOf(conditionId) ==
    IF Has(marketCache, conditionId)
       /\ Get(marketCache, conditionId, <<>>).dailyVolume # 0
    THEN Get(marketCache, conditionId, <<>>).dailyVolume
    ELSE DefaultDailyVolume

\* the fill of the trade is applied to the portfolio and logged
ApplyFill(trade, entryTime, priceAtEntry, currentExposure, positionSizeUsd) ==
    LET market        == Get(marketCache, trade.conditionId, <<>>)
        dailyVolume   == DailyVolumeOf(trade.conditionId)
        fill          == calculateRealisticFill(trade.side, positionSizeUsd, <<>>,
                                                cfg.marketImpactEnabled, dailyVolume,
                                                priceAtEntry)
        actualSizeUsd == ActualSizeUsd(positionSizeUsd, fill.fillRatio)
        shares        == IF actualSizeUsd = NaN THEN NaN
                         ELSE (actualSizeUsd * PriceScale) \div fill.avgPrice
        existing      == Get(portfolio.positions, PosKey(trade), <<>>)
        held          == Has(portfolio.positions, PosKey(trade))
    IN  /\ IF trade.side = "BUY"
           THEN /\ portfolio' =
                     [cash      |-> portfolio.cash - actualSizeUsd,
                      positions |-> PositionsAfterBuy(portfolio.positions, trade,
                                                      shares, fill.avgPrice)]
                /\ marketExposure' = Put(marketExposure, trade.conditionId,
                                         currentExposure + actualSizeUsd)
                /\ UNCHANGED <<dailyPnl, marketPnl>>
           ELSE IF held /\ existing.size > 0
           THEN LET sellShares == SellShares(shares, existing.size)
                    pnl        == SellPnl(fill.avgPrice, existing.avgPrice, sellShares)
                    dateKey    == trade.timestamp \div Day
                IN  /\ portfolio' =
                         [cash      |-> portfolio.cash
                                        + (sellShares * fill.avgPrice) \div PriceScale,
                          positions |-> PositionsAfterSell(portfolio.positions, trade,
                                                           sellShares, fill.avgPrice)]
                    /\ dailyPnl' = Put(dailyPnl, dateKey, Get(dailyPnl, dateKey, 0) + pnl)
                    /\ marketPnl' = Put(marketPnl, trade.conditionId,
                                        Get(marketPnl, trade.conditionId, 0) + pnl)
                    /\ UNCHANGED marketExposure
           ELSE UNCHANGED <<portfolio, marketExposure, dailyPnl, marketPnl>>
        /\ fillIn' = <<[side |-> trade.side, sizeUsd |-> positionSizeUsd,
                        orderbook |-> <<>>,
                        marketImpactEnabled |-> cfg.marketImpactEnabled,
                        dailyVolume |-> dailyVolume, basePrice |-> priceAtEntry]>>
        /\ fillOut' = <<fill>>
        /\ tradeLog' = PushToLog(tradeLog, LogEntry(trade, entryTime, priceAtEntry, fill,
                                                    shares, actualSizeUsd))

\* one turn of the loop over the trades
ProcessTrade ==
    /\ pc = "trials"
    /\ inTrial
    /\ k <= Len(relevantTrades)
    /\ k' = k + 1
    /\ LET trade == relevantTrades[k]
       IN  IF TradeUsd(trade) < cfg.minTradeUsd * 100
           THEN /\ SkipTrade
                /\ UNCHANGED seed
           ELSE LET r1              == seededRandom(seed)
                    r2              == seededRandom(r1)
                    entryTime       == trade.timestamp + DelayMs(r1)
                    priceAtEntry    == PriceAtEntry(trade.price, r2)
                    currentExposure == Get(marketExposure, trade.conditionId, 0)
                    positionSizeUsd == TrimToExposure(RequestedSize(trade), currentExposure)
                IN  /\ seed' = r2
                    /\ IF positionSizeUsd # NaN /\ positionSizeUsd < 100
                       THEN SkipTrade
                       ELSE ApplyFill(trade, entryTime, priceAtEntry, currentExposure,
                                      positionSizeUsd)
    /\ UNCHANGED <<config, db, estimate, aborted, pc, caller, cfg, httpStatus, error, topTraders, relevantTrades,
                   traderVolumes, pending, marketCache, seed0, i, inTrial, results,
                   allDailyPnl, allMarketPnl, sampleTradeLog, marketContributions,
                   report, reads, runNo, prev, request>>

\* String.prototype.toUpperCase on the outcome labels
toUpperCase(o) ==
    CASE o = "Yes" -> "YES"
      [] o = "No"  -> "NO"
      [] OTHER     -> o

\* a settlement that pays nothing
ExitAtZero(pos) == 0

\* the price a residual position is marked at
ExitPrice(pos) ==
    LET cached == Has(marketCache, pos.conditionId)
        market == Get(marketCache, pos.conditionId, <<>>)
    IN  IF cached /\ market.isClosed /\ market.winningOutcome # ""
        THEN IF toUpperCase(market.winningOutcome) = toUpperCase(pos.outcome)
             THEN PriceScale ELSE 0
        ELSE LET lastPriceYes == IF cached /\ market.lastPriceYes # 0
                                 THEN market.lastPriceYes ELSE DefaultLastPrice
             IN  IF toUpperCase(pos.outcome) = "NO" THEN PriceScale - lastPriceYes
                 ELSE lastPriceYes

\* pos.size <= 0.001: the position is not marked
Residual(pos) == pos.size * 1000 > ShareScale

PositionPnl(pos) == ((ExitPrice(pos) - pos.avgPrice) * pos.size) \div PriceScale

RECURSIVE UnrealizedPnl(_)
UnrealizedPnl(positions) ==
    IF positions = <<>> THEN 0
    ELSE (IF Residual(Head(positions).val) THEN PositionPnl(Head(positions).val) ELSE 0)
         + UnrealizedPnl(Tail(positions))

\* marketPnl with the unrealized PnL of every residual position added
RECURSIVE MarkToMarket(_, _)
MarkToMarket(positions, mp) ==
    IF positions = <<>> THEN mp
    ELSE LET pos == Head(positions).val
         IN  MarkToMarket(Tail(positions),
                 IF Residual(pos)
                 THEN Put(mp, pos.conditionId, Get(mp, pos.conditionId, 0) + PositionPnl(pos))
                 ELSE mp)

\* finalPnl of the trial, in pence
FinalPnl ==
    LET totalPnlUsd == portfolio.cash - initialCash + UnrealizedPnl(portfolio.positions)
    IN  (totalPnlUsd * 100) \div GbpUsdRate

\* every entry of a trial's map pushed onto the list of its key
RECURSIVE PushAll(_, _)
PushAll(all, m) ==
    IF m = <<>> THEN all
    ELSE PushAll(Put(all, Head(m).key, Append(Get(all, Head(m).key, <<>>), Head(m).val)),
                 Tail(m))

\* runSingleSimulation returns; the loop of runSimulation records the result
FinishTrial ==
    /\ pc = "trials"
    /\ inTrial
    /\ k > Len(relevantTrades)
    /\ inTrial' = FALSE
    /\ marketPnl' = MarkToMarket(portfolio.positions, marketPnl)
    /\ results' = Append(results, FinalPnl)
    /\ sampleTradeLog' = IF i = 0 THEN FirstN(tradeLog, SampleLogSize) ELSE sampleTradeLog
    /\ allDailyPnl' = PushAll(allDailyPnl, dailyPnl)
    /\ allMarketPnl' = PushAll(allMarketPnl, marketPnl')
    /\ i' = i + 1
    /\ UNCHANGED <<config, db, estimate, aborted, pc, caller, cfg, httpStatus, error, topTraders, relevantTrades,
                   traderVolumes, pending, marketCache, seed, seed0, k, portfolio,
                   marketExposure, dailyPnl, tradeLog, marketContributions, report,
                   reads, runNo, prev, request, fillIn, fillOut>>

-----------------------------------------------------------------------------
(* runSimulation: aggregation and report *)

\* the results left in trial order
InTrialOrder(r) == r

\* results.sort((a, b) => a - b)
SortedResults(r) == SortAsc(r)

ContributionOf(entry) ==
    [conditionId     |-> entry.key,
     market          |-> "",
     pnlContribution |-> mean(entry.val),
     tradeCount      |-> (Len(entry.val) * 100) \div cfg.numSimulations]

\* the loop has ended: the results are sorted, the markets ranked
Aggregate ==
    /\ pc = "trials"
    /\ ~inTrial
    /\ i >= cfg.numSimulations
    /\ results' = SortedResults(results)
    /\ allDailyPnl' = [j \in DOMAIN allDailyPnl |->
                          [allDailyPnl[j] EXCEPT !.val = SortAsc(@)]]
    /\ marketContributions' =
          FirstN(SortByContribution([j \in DOMAIN allMarketPnl |->
                                        ContributionOf(allMarketPnl[j])]), TopMarkets)
    /\ pending' = [j \in DOMAIN marketContributions' |-> marketContributions'[j].conditionId]
    /\ pc' = "names"
    /\ UNCHANGED <<config, db, estimate, aborted, caller, cfg, httpStatus, error, topTraders, relevantTrades,
                   traderVolumes, marketCache, seed, seed0, i, inTrial, k, portfolio,
                   marketExposure, dailyPnl, marketPnl, tradeLog, allMarketPnl,
                   sampleTradeLog, report, reads, runNo, prev, request, fillIn, fillOut>>

\* mc.conditionId.slice(0, 16) + '...' (the conditionIds of the inputs are
\* shorter than 16 characters)
ShortId(conditionId) == conditionId \o "..."

\* one turn of the loop that names the markets: dataStore.getMarket again;
\* a market without a row or a title is named by its shortened conditionId
FillName ==
    /\ pc = "names"
    /\ pending # <<>>
    /\ LET conditionId == Head(pending)
           j           == Len(marketContributions) - Len(pending) + 1
           title       == IF conditionId \in DOMAIN db.markets
                             /\ db.markets[conditionId].title # ""
                          THEN db.markets[conditionId].title ELSE ShortId(conditionId)
       IN  /\ reads' = Append(reads, Read("getMarket", conditionId))
           /\ marketContributions' = [marketContributions EXCEPT ![j].market = title]
    /\ pending' = Tail(pending)
    /\ UNCHANGED <<config, db, estimate, aborted, pc, caller, cfg, httpStatus, error, topTraders, relevantTrades,
                   traderVolumes, marketCache, seed, seed0, i, inTrial, k, portfolio,
                   marketExposure, dailyPnl, marketPnl, tradeLog, results, allDailyPnl,
                   allMarketPnl, sampleTradeLog, report, runNo, prev, request, fillIn, fillOut>>

DayRow(entry) ==
    [date      |-> entry.key,
     pnlMedian |-> percentile(entry.val, 50),
     pnlP5     |-> percentile(entry.val, 5),
     pnlP95    |-> percentile(entry.val, 95)]

\* the SimulationResults, without the identifier, dates and log texts
SimulationResults ==
    [config              |-> cfg,
     results             |-> [pnlP5       |-> percentile(results, 5),
                              pnlP25      |-> percentile(results, 25),
                              pnlMedian   |-> percentile(results, 50),
                              pnlP75      |-> percentile(results, 75),
                              pnlP95      |-> percentile(results, 95),
                              pnlMean     |-> mean(results),
                              sharpeRatio |-> SharpeRatio(results)],
     dailyBreakdown      |-> SortByDate([j \in DOMAIN allDailyPnl |-> DayRow(allDailyPnl[j])]),
     marketContributions |-> marketContributions,
     tradersFollowed     |-> topTraders,
     randomSeed          |-> seed0,
     sampleTradeLog      |-> sampleTradeLog]

\* runSimulation returns the report; the route answers 200
Report ==
    /\ pc = "names"
    /\ pending = <<>>
    /\ report' = <<SimulationResults>>
    /\ pc' = "done"
    /\ httpStatus' = HttpStatusOf(200)
    /\ UNCHANGED <<config, db, estimate, aborted, caller, cfg, error, topTraders, relevantTrades, traderVolumes,
                   pending, marketCache, seed, seed0, i, inTrial, k, portfolio,
                   marketExposure, dailyPnl, marketPnl, tradeLog, results, allDailyPnl,
                   allMarketPnl, sampleTradeLog, marketContributions, reads, runNo,
                   prev, request, fillIn, fillOut>>

\* runSimulation is called a second time with the same configuration on the
\* same data; every local of the first call is gone
Rerun ==
    /\ pc = "done"
    /\ caller = "direct"
    /\ runNo = 1
    /\ runNo' = 2
    /\ prev' = <<[cfg |-> cfg, topTraders |-> topTraders,
                  relevantTrades |-> relevantTrades, marketCache |-> marketCache,
                  seed0 |-> seed0, seed |-> seed, results |-> results,
                  allMarketPnl |-> allMarketPnl, report |-> report[1]]>>
    /\ pc' = "leaderboard"
    /\ topTraders' = <<>>
    /\ relevantTrades' = <<>>
    /\ traderVolumes' = <<>>
    /\ pending' = <<>>
    /\ marketCache' = <<>>
    /\ seed0' = 0
    /\ i' = 0
    /\ k' = 0
    /\ portfolio' = [cash |-> 0, positions |-> <<>>]
    /\ marketExposure' = <<>>
    /\ dailyPnl' = <<>>
    /\ marketPnl' = <<>>
    /\ tradeLog' = <<>>
    /\ results' = <<>>
    /\ allDailyPnl' = <<>>
    /\ allMarketPnl' = <<>>
    /\ sampleTradeLog' = <<>>
    /\ marketContributions' = <<>>
    /\ report' = <<>>
    /\ reads' = <<>>
    /\ UNCHANGED <<config, db, estimate, aborted, caller, cfg, httpStatus, error, seed, inTrial, request, fillIn, fillOut>>

Steps ==
    \/ LoadLeaderboard
    \/ LoadTrades
    \/ FetchMarket
    \/ StartTrials
    \/ BeginTrial
    \/ ProcessTrade
    \/ FinishTrial
    \/ Aggregate
    \/ FillName
    \/ Report

Next == CallRunSimulation \/ Steps \/ Rerun

Spec == Init /\ [][Next]_vars

-----------------------------------------------------------------------------
(* POST /follower-sim *)

\* a schema without the bounds of windowDays
ValidButForWindow(body) ==
    /\ body.bankrollGbp >= MinBankrollGbp /\ body.bankrollGbp <= MaxBankrollGbp
    /\ body.entryDelaySec >= 0 /\ body.entryDelaySec <= MaxEntryDelaySec
    /\ body.delayVarianceSec >= 0 /\ body.delayVarianceSec <= MaxDelayVarianceSec
    /\ body.sizingRule \in {"equal", "proportional"}
    /\ body.maxExposurePct >= MinMaxExposurePct /\ body.maxExposurePct <= MaxMaxExposurePct
    /\ body.minTradeUsd >= 0 /\ body.minTradeUsd <= MaxMinTradeUsd
    /\ body.useActualOrderbook \in BOOLEAN
    /\ body.marketImpactEnabled \in BOOLEAN
    /\ body.numSimulations >= MinNumSimulations /\ body.numSimulations <= MaxNumSimulations

\* SimulationConfigSchema.parse succeeds
ValidConfig(body) ==
    /\ body.bankrollGbp >= MinBankrollGbp /\ body.bankrollGbp <= MaxBankrollGbp
    /\ body.entryDelaySec >= 0 /\ body.entryDelaySec <= MaxEntryDelaySec
    /\ body.delayVarianceSec >= 0 /\ body.delayVarianceSec <= MaxDelayVarianceSec
    /\ body.sizingRule \in {"equal", "proportional"}
    /\ body.maxExposurePct >= MinMaxExposurePct /\ body.maxExposurePct <= MaxMaxExposurePct
    /\ body.minTradeUsd >= 0 /\ body.minTradeUsd <= MaxMinTradeUsd
    /\ body.useActualOrderbook \in BOOLEAN
    /\ body.marketImpactEnabled \in BOOLEAN
    /\ body.numSimulations >= MinNumSimulations /\ body.numSimulations <= MaxNumSimulations
    /\ body.windowDays >= MinWindowDays /\ body.windowDays <= MaxWindowDays

\* request bodies: every numeric field at, below and above its bounds
\* (numSimulations at its upper bound is left out: 5000 trials)
Requests ==
    LET base == [DefaultConfig EXCEPT !.numSimulations = MinNumSimulations]
    IN  {base}
        \cup {[base EXCEPT !.bankrollGbp = v] :
                 v \in {MinBankrollGbp - 1, MinBankrollGbp, MaxBankrollGbp, MaxBankrollGbp + 1}}
        \cup {[base EXCEPT !.entryDelaySec = v] : v \in {-1, 0, MaxEntryDelaySec, MaxEntryDelaySec + 1}}
        \cup {[base EXCEPT !.delayVarianceSec = v] :
                 v \in {-1, 0, MaxDelayVarianceSec, MaxDelayVarianceSec + 1}}
        \cup {[base EXCEPT !.maxExposurePct = v] :
                 v \in {MinMaxExposurePct - 1, MinMaxExposurePct, MaxMaxExposurePct,
                        MaxMaxExposurePct + 1}}
        \cup {[base EXCEPT !.minTradeUsd = v] : v \in {-1, 0, MaxMinTradeUsd, MaxMinTradeUsd + 1}}
        \cup {[base EXCEPT !.numSimulations = v] :
                 v \in {0, MinNumSimulations - 1, MaxNumSimulations + 1}}
        \cup {[base EXCEPT !.windowDays = v] :
                 v \in {MinWindowDays - 1, MinWindowDays, MaxWindowDays, MaxWindowDays + 1}}
        \cup {[base EXCEPT !.sizingRule = "kelly"]}

\* the route: parse the body, cap numSimulations, call runSimulation;
\* a ZodError is answered 400
PostFollowerSim ==
    /\ pc = "idle"
    /\ \E body \in Requests :
          /\ request' = <<body>>
          /\ IF ValidConfig(body)
             THEN /\ cfg' = [body EXCEPT !.numSimulations =
                                IF @ > config.MAX_SIMULATIONS_PER_REQUEST
                                THEN config.MAX_SIMULATIONS_PER_REQUEST ELSE @]
                  /\ caller' = "api"
                  /\ pc' = "leaderboard"
                  /\ UNCHANGED httpStatus
             ELSE /\ pc' = "rejected"
                  /\ httpStatus' = 400
                  /\ caller' = "api"
                  /\ UNCHANGED cfg
    /\ UNCHANGED <<config, db, estimate, aborted, error, topTraders, relevantTrades, traderVolumes, pending,
                   marketCache, seed, seed0, i, inTrial, k, portfolio, marketExposure,
                   dailyPnl, marketPnl, tradeLog, results, allDailyPnl, allMarketPnl,
                   sampleTradeLog, marketContributions, report, reads, runNo, prev,
                   fillIn, fillOut>>

\* the client closes the connection, or its deadline passes, while the trial
\* loop runs; the route registers no handler for it and the loop never yields
ClientAborts ==
    /\ caller = "api"
    /\ pc = "trials"
    /\ ~aborted
    /\ aborted' = TRUE
    /\ UNCHANGED <<config, db, estimate, pc, caller, request, cfg, httpStatus, error, topTraders,
                   relevantTrades, traderVolumes, pending, marketCache, seed, seed0, i,
                   inTrial, k, portfolio, marketExposure, dailyPnl, marketPnl, tradeLog,
                   results, allDailyPnl, allMarketPnl, sampleTradeLog,
                   marketContributions, report, reads, runNo, prev, fillIn, fillOut>>

InitApi ==
    /\ config \in ServerConfigs
    /\ db = Store("one", "oneBuy", "settled")
    /\ Idle
    /\ estimate = <<>>
    /\ fillIn = <<>>
    /\ fillOut = <<>>

NextApi == PostFollowerSim \/ Steps \/ ClientAborts

SpecApi == InitApi /\ [][NextApi]_vars

-----------------------------------------------------------------------------
(* The fill model on its own *)

InitFill ==
    /\ config = DefaultServerConfig
    /\ db = Store("one", "oneBuy", "settled")
    /\ Idle
    /\ estimate = <<>>
    /\ fillIn = <<>>
    /\ fillOut = <<>>

Fill(a) ==
    calculateRealisticFill(a.side, a.sizeUsd, a.orderbook, a.marketImpactEnabled,
                           a.dailyVolume, a.basePrice)

\* a call of calculateRealisticFill
CallFill ==
    /\ pc = "idle"
    /\ fillIn = <<>>
    /\ \E a \in FillArgs :
          /\ fillIn' = <<a>>
          /\ fillOut' = <<Fill(a)>>
    /\ UNCHANGED <<config, db, estimate, runVars>>

\* a second call that differs from the first in the market-impact flag only
CallFillAgain ==
    /\ Len(fillIn) = 1
    /\ LET a == [fillIn[1] EXCEPT !.marketImpactEnabled = ~@]
       IN  /\ fillIn' = Append(fillIn, a)
           /\ fillOut' = Append(fillOut, Fill(a))
    /\ UNCHANGED <<config, db, estimate, runVars>>

\* a second call that differs from the first in a larger notional only
CallFillLarger ==
    /\ Len(fillIn) = 1
    /\ \E sizeUsd \in FillSizes :
          /\ sizeUsd > fillIn[1].sizeUsd
          /\ LET a == [fillIn[1] EXCEPT !.sizeUsd = sizeUsd]
             IN  /\ fillIn' = Append(fillIn, a)
                 /\ fillOut' = Append(fillOut, Fill(a))
    /\ UNCHANGED <<config, db, estimate, runVars>>

NextFill == CallFill \/ CallFillAgain \/ CallFillLarger

SpecFill == InitFill /\ [][NextFill]_vars

\* runs of runSimulation and stand-alone calls of calculateRealisticFill
NextRunOrFill == Next \/ CallFill

SpecRunOrFill == Init /\ [][NextRunOrFill]_vars

-----------------------------------------------------------------------------
(* getQuickEstimate: the estimate without Monte Carlo *)

\* roiPercent of the wallets of a leaderboard, in percent
EstimateRois == {-60, -6, 0, 12, 180}

\* leaderboards of up to three wallets, and the empty one
EstimateBoards ==
    {<<>>} \cup
    UNION {[1..n -> {Entry("w1", roi, 500) : roi \in EstimateRois}] : n \in 1..3}

\* bankroll_gbp of GET /follower-sim
EstimateBankrolls == {10, 100, 100000}

InitEstimate ==
    /\ config = DefaultServerConfig
    /\ \E leaderboard \in EstimateBoards :
          db = [Store("one", "none", "settled") EXCEPT !.leaderboard = leaderboard]
    /\ Idle
    /\ estimate = <<>>
    /\ fillIn = <<>>
    /\ fillOut = <<>>

\* Math.min(...leaderboard.map((e) => e.roiPercent))
MinRoi(leaderboard) ==
    CHOOSE r \in {leaderboard[j].roiPercent : j \in DOMAIN leaderboard} :
        \A j \in DOMAIN leaderboard : r <= leaderboard[j].roiPercent

\* Math.max(...leaderboard.map((e) => e.roiPercent))
MaxRoi(leaderboard) ==
    CHOOSE r \in {leaderboard[j].roiPercent : j \in DOMAIN leaderboard} :
        \A j \in DOMAIN leaderboard : r >= leaderboard[j].roiPercent

\* estimatedPnlGbp of getQuickEstimate, in 1/10000 GBP: bankroll x ROI / 100 x
\* frictionFactor 0.6, x 0.5 for low and x 0.8 for high
getQuickEstimate(leaderboard, bankrollGbp) ==
    IF leaderboard = <<>>
    THEN [low |-> 0, mid |-> 0, high |-> 0, insufficient |-> TRUE]
    ELSE LET avgRoi == SumSeq([j \in DOMAIN leaderboard |-> leaderboard[j].roiPercent])
                       \div Len(leaderboard)
         IN  [low  |-> bankrollGbp * MinRoi(leaderboard) * 30,
              mid  |-> bankrollGbp * avgRoi * 60,
              high |-> bankrollGbp * MaxRoi(leaderboard) * 48,
              insufficient |-> FALSE]

\* GET /follower-sim: getQuickEstimate(bankroll)
CallQuickEstimate ==
    /\ pc = "idle"
    /\ estimate = <<>>
    /\ \E bankrollGbp \in EstimateBankrolls :
          estimate' = <<[bankrollGbp |-> bankrollGbp,
                         estimatedPnlGbp |->
                            getQuickEstimate(FirstN(db.leaderboard, LeaderboardLimit),
                                             bankrollGbp)]>>
    /\ reads' = Append(reads, Read("getLeaderboard", "realized_pnl"))
    /\ UNCHANGED <<config, db, pc, caller, request, aborted, cfg, httpStatus, error,
                   topTraders, relevantTrades, traderVolumes, pending, marketCache,
                   seed, seed0, i, inTrial, k, portfolio, marketExposure, dailyPnl,
                   marketPnl, tradeLog, results, allDailyPnl, allMarketPnl,
                   sampleTradeLog, marketContributions, report, runNo, prev,
                   fillIn, fillOut>>

SpecEstimate == InitEstimate /\ [][CallQuickEstimate]_vars

-----------------------------------------------------------------------------
(* Claims about calculateRealisticFill, under SpecFill *)

HasBook(j) == fillIn[j].orderbook # <<>>
Book(j) == fillIn[j].orderbook[1]
NearDepth(j) == IF fillIn[j].side = "BUY" THEN Book(j).askDepth100bps
                                          ELSE Book(j).bidDepth100bps
WideDepth(j) == IF fillIn[j].side = "BUY" THEN Book(j).askDepth500bps
                                          ELSE Book(j).bidDepth500bps
ImpactApplies(j) == fillIn[j].marketImpactEnabled /\ fillIn[j].dailyVolume > 0
WithinNearDepth(j) == HasBook(j) /\ fillIn[j].sizeUsd <= NearDepth(j)
BeyondBothTiers(j) ==
    HasBook(j) /\ fillIn[j].sizeUsd > NearDepth(j) /\ fillIn[j].sizeUsd > WideDepth(j)

\* C6 as stated: whenever the notional does not exceed the near-touch depth
\* of the order's side, the returned slippageBps is at most half the quoted
\* spread, whatever the market-impact flag and the daily volume.
C6_AtMostHalfSpread ==
    \A j \in DOMAIN fillIn :
        WithinNearDepth(j) => fillOut[j].slippageBps <= Book(j).spreadBps * 50

\* C6 amended: whenever the notional does not exceed the near-touch depth and
\* no market impact is added (flag off, or daily volume not positive), the
\* returned slippageBps is half the quoted spread rounded to the nearest
\* whole basis point, halves up: within half a basis point of spreadBps / 2
\* and equal to it for an even spread.  With market impact it is never less.
C6_HalfSpreadRounded ==
    \A j \in DOMAIN fillIn :
        WithinNearDepth(j) =>
            LET half == Book(j).spreadBps * 50
                got  == fillOut[j].slippageBps
            IN  /\ got % CentiBps = 0
                /\ got > half - 50
                /\ ~ImpactApplies(j) => got <= half + 50
                /\ ~ImpactApplies(j) /\ Book(j).spreadBps % 2 = 0 => got = half

C6_Witness ==
    \E j \in DOMAIN fillIn :
        /\ WithinNearDepth(j)
        /\ fillIn[j].sizeUsd = NearDepth(j)
        /\ ~ImpactApplies(j)
        /\ Book(j).spreadBps = 5
        /\ fillOut[j].slippageBps = 300

\* C7 as stated: whenever the notional exceeds both depths of the order's
\* side, fillRatio < 1, fillRatio = wider-tier depth / notional and
\* slippageBps is exactly 500, whatever the market-impact flag and volume.
C7_Exactly500 ==
    \A j \in DOMAIN fillIn :
        BeyondBothTiers(j) =>
            /\ fillOut[j].fillRatio < RatioOne
            /\ fillOut[j].fillRatio = MulDiv(WideDepth(j), RatioOne, fillIn[j].sizeUsd)
            /\ fillOut[j].slippageBps = 500 * CentiBps

\* C7 amended: whenever the notional exceeds both depths of the order's
\* side, fillRatio < 1 and equals wider-tier depth / notional whatever the
\* flag; slippageBps is exactly 500 when no market impact is added (flag
\* off, or daily volume not positive) and at least 500 otherwise.
C7_PartialFillAt500 ==
    \A j \in DOMAIN fillIn :
        BeyondBothTiers(j) =>
            /\ fillOut[j].fillRatio < RatioOne
            /\ fillOut[j].fillRatio = MulDiv(WideDepth(j), RatioOne, fillIn[j].sizeUsd)
            /\ fillOut[j].filled = (fillOut[j].fillRatio >= FilledRatio)
            /\ fillOut[j].slippageBps >= 500 * CentiBps
            /\ ~ImpactApplies(j) => fillOut[j].slippageBps = 500 * CentiBps

C7_Witness ==
    \E j \in DOMAIN fillIn :
        /\ BeyondBothTiers(j)
        /\ ~ImpactApplies(j)
        /\ fillOut[j].slippageBps = 500 * CentiBps
        /\ fillOut[j].fillRatio > 0
        /\ fillOut[j].fillRatio < FilledRatio
        /\ ~fillOut[j].filled

\* C8: of two calls that differ only in the market-impact flag, the one
\* with the flag enabled returns a slippageBps at least that of the other.
C8_ImpactNeverLowersSlippage ==
    \A a, b \in DOMAIN fillIn :
        /\ fillIn[a].marketImpactEnabled
        /\ fillIn[b] = [fillIn[a] EXCEPT !.marketImpactEnabled = FALSE]
        => fillOut[a].slippageBps >= fillOut[b].slippageBps

C8_Witness ==
    \E a, b \in DOMAIN fillIn :
        /\ fillIn[a].marketImpactEnabled
        /\ fillIn[b] = [fillIn[a] EXCEPT !.marketImpactEnabled = FALSE]
        /\ fillOut[a].slippageBps > fillOut[b].slippageBps

\* the clamp left the price alone
Unclamped(j) == fillOut[j].avgPrice > MinSharePrice /\ fillOut[j].avgPrice < MaxSharePrice

AdverseTo(j, ref) ==
    /\ fillIn[j].side = "BUY" => fillOut[j].avgPrice >= ref
    /\ fillIn[j].side = "SELL" => fillOut[j].avgPrice <= ref

-----------------------------------------------------------------------------
(* Claims about runSimulation called directly, under Spec *)

NoFollowedData == topTraders = <<>> \/ relevantTrades = <<>>

\* C1: runSimulation fails, runs no trial and returns no report whenever the
\* list of followed wallets or the list of their in-window trades is empty.
\* Once the leaderboard and the trades are loaded, a run without followed
\* wallets or without trades of theirs is a failed run and never anything else.
C1_FailsWithoutData ==
    (pc \notin {"idle", "leaderboard", "trades"} /\ NoFollowedData)
        => /\ pc = "failed"
           /\ error # ""
           /\ ~inTrial
           /\ results = <<>>
           /\ report = <<>>

\* the half of C1 the code keeps: an empty leaderboard is an error
C1_Witness ==
    /\ pc = "failed"
    /\ topTraders = <<>>
    /\ error = "No traders in leaderboard"
    /\ results = <<>>
    /\ report = <<>>

Positions == portfolio.positions

\* C2: in every trial, after any sequence of BUY and SELL trades, every
\* position's size is >= 0; a SELL of more shares than are held leaves the
\* position at 0.
C2_NeverShort ==
    \A j \in DOMAIN Positions : Positions[j].val.size >= 0

\* a SELL that asked for more shares than were held has emptied the position
C2_Witness ==
    /\ inTrial
    /\ Len(tradeLog) = 2
    /\ tradeLog[1].originalTrade.side = "BUY"
    /\ tradeLog[2].originalTrade.side = "SELL"
    /\ PosKey(tradeLog[2].originalTrade) = PosKey(tradeLog[1].originalTrade)
    /\ tradeLog[2].positionSize > tradeLog[1].positionSize
    /\ Get(Positions, PosKey(tradeLog[2].originalTrade), <<>>).size = 0

\* C3: for every numSimulations >= 1 the percentiles of the report satisfy
\* pnlP5 <= pnlP25 <= pnlMedian <= pnlP75 <= pnlP95.
C3_PercentilesOrdered ==
    report # <<>> =>
        LET r == report[1].results
        IN  /\ r.pnlP5 <= r.pnlP25
            /\ r.pnlP25 <= r.pnlMedian
            /\ r.pnlMedian <= r.pnlP75
            /\ r.pnlP75 <= r.pnlP95

\* a report over trials whose PnLs differ and did not come out in order
C3_Witness ==
    /\ report # <<>>
    /\ cfg.numSimulations >= 2
    /\ report[1].results.pnlP5 < report[1].results.pnlP95
    /\ \E j \in DOMAIN allMarketPnl :
          \E a, b \in DOMAIN allMarketPnl[j].val :
             a < b /\ allMarketPnl[j].val[a] > allMarketPnl[j].val[b]

\* the second run has ended, and it had the seed and the inputs of the first
SameSeedAndInputs ==
    /\ runNo = 2
    /\ pc = "done"
    /\ seed0 = prev[1].seed0
    /\ cfg = prev[1].cfg
    /\ topTraders = prev[1].topTraders
    /\ relevantTrades = prev[1].relevantTrades
    /\ marketCache = prev[1].marketCache

C5_Scenario ==
    /\ cfg.bankrollGbp = 100
    /\ cfg.entryDelaySec = 60
    /\ cfg.delayVarianceSec = 30
    /\ cfg.sizingRule = "equal"
    /\ db = Store("one", "oneBuy", "settled")

\* trial i has just returned: results[i] is its PnL, tradeLog is its log
TrialReturned == pc = "trials" /\ ~inTrial /\ i >= 1

\* (1.0 / fillPrice - 1) * positionSizeUsd of the trial's one fill, in cents
C5_Bound ==
    (tradeLog[1].positionSizeUsd * (PriceScale - tradeLog[1].actualEntryPrice))
        \div tradeLog[1].actualEntryPrice

\* the PnL of the trial is positive and, in GBP as it is returned and in USD
\* as it was computed, at most the bound
C5_PositiveAndBounded ==
    /\ Len(tradeLog) = 1
    /\ results[i] > 0
    /\ results[i] <= C5_Bound
    /\ (results[i] * GbpUsdRate) \div 100 <= C5_Bound

\* C5 as stated: in the scenario every trial's final PnL is positive and at
\* most (1.0 / fillPrice - 1) * positionSizeUsd.
C5_EveryTrialGains ==
    (C5_Scenario /\ TrialReturned) => C5_PositiveAndBounded

\* C5, amended: the same, for a configuration whose minTradeUsd does not
\* exceed the $50 of the trade (the default of 10 does not).
C5_EveryCopiedTrialGains ==
    (C5_Scenario /\ TrialReturned /\ cfg.minTradeUsd * 100 <= TradeUsd(BuyM1))
        => C5_PositiveAndBounded

\* a later trial of the scenario has returned with a gain; it filled away from
\* the price of the trade
C5_Witness ==
    /\ C5_Scenario
    /\ TrialReturned
    /\ i >= 2
    /\ Len(tradeLog) = 1
    /\ tradeLog[1].actualEntryPrice # BuyM1.price
    /\ results[i] > 0

-----------------------------------------------------------------------------
(* Claims about POST /follower-sim, under SpecApi *)

\* every numeric field of c is within the bounds of SimulationConfigSchema
NumbersInRange(c) ==
    /\ c.bankrollGbp \in 10..100000
    /\ c.entryDelaySec \in 0..3600
    /\ c.delayVarianceSec \in 0..300
    /\ c.maxExposurePct \in 1..100
    /\ c.minTradeUsd \in 0..10000
    /\ c.numSimulations \in 100..5000
    /\ c.windowDays \in 1..30

\* a request with a numeric field out of range was answered 400 and nothing
\* of runSimulation has happened
RejectedBeforeRun ==
    (request # <<>> /\ ~NumbersInRange(request[1]))
        => /\ pc = "rejected"
           /\ httpStatus = 400
           /\ reads = <<>>
           /\ topTraders = <<>>
           /\ relevantTrades = <<>>
           /\ ~inTrial
           /\ results = <<>>
           /\ report = <<>>

Started == pc \notin {"idle", "rejected"}

\* C10 as stated: a request with an out-of-range numeric field is rejected
\* before runSimulation is invoked, no data is loaded and no trial is run;
\* runSimulation only ever starts with a config that satisfies every bound.
C10_OnlyInRangeConfigsRun ==
    /\ RejectedBeforeRun
    /\ Started => NumbersInRange(cfg)

\* C10, amended: the same rejection; runSimulation starts with the request's
\* config, every field within its bounds, but for numSimulations, which is
\* the requested count capped at MAX_SIMULATIONS_PER_REQUEST and so below 100
\* where the deployment sets the cap below 100.
C10_InRangeButForTheCap ==
    /\ RejectedBeforeRun
    /\ Started =>
          /\ NumbersInRange(request[1])
          /\ cfg = [request[1] EXCEPT !.numSimulations =
                       Min(@, config.MAX_SIMULATIONS_PER_REQUEST)]
          /\ (config.MAX_SIMULATIONS_PER_REQUEST >= 100 => NumbersInRange(cfg))

\* a request one below a lower bound has been rejected
C10_Witness ==
    /\ request # <<>>
    /\ request[1].windowDays = 0
    /\ pc = "rejected"
    /\ httpStatus = 400
    /\ reads = <<>>

-----------------------------------------------------------------------------
(* Claims about the data-store reads of a run, under Spec *)

SameRead(a, b) == reads[a].op = reads[b].op /\ reads[a].arg = reads[b].arg

\* the positions of runSimulation before the trial loop
BeforeTrials == {"leaderboard", "trades", "prefetch"}

\* C11: in one run each piece of reference data (the followed wallets, the
\* in-window trades, the metadata of each referenced market) is read from the
\* data store exactly once, and every read happens before the first trial
\* starts: none during the trial loop, none after it.
C11_ReadOnceBeforeTrials ==
    /\ \A a, b \in DOMAIN reads : a # b => ~SameRead(a, b)
    /\ \A a \in DOMAIN reads : reads[a].during \in BeforeTrials
    /\ pc = "done" =>
          /\ \E a \in DOMAIN reads : reads[a].op = "getLeaderboard"
          /\ \E a \in DOMAIN reads : reads[a].op = "getTradesSince"

\* the trials are over and the metadata of a market that was read before the
\* trial loop has been read again
C11_Witness ==
    /\ pc \in {"names", "done"}
    /\ Len(results) = cfg.numSimulations
    /\ \E a, b \in DOMAIN reads :
          /\ a < b
          /\ SameRead(a, b)
          /\ reads[a].op = "getMarket"
          /\ reads[a].during = "prefetch"
          /\ reads[b].during = "names"

\* what the code keeps of C11: the followed wallets and the trades are read
\* once, each market once before the trials and at most once more after them,
\* and nothing is read while the trials run
C11_NoReadDuringTrials ==
    /\ \A a, b \in DOMAIN reads :
          a # b /\ SameRead(a, b) =>
             reads[a].op = "getMarket" /\ reads[a].during # reads[b].during
    /\ \A a \in DOMAIN reads : reads[a].during \in BeforeTrials \cup {"names"}
    /\ (pc = "trials" /\ i >= 1) =>
          \A a \in DOMAIN reads : reads[a].during \in BeforeTrials

-----------------------------------------------------------------------------
(* Claims about cancellation, under SpecApi *)

\* C12: a running simulation can be cancelled or timed out: after the
\* cancellation event the run ends without executing the remaining trials.
\* Once the client has given up, no further trial starts.
C12_NoTrialAfterCancel ==
    [][aborted => ~(~inTrial /\ inTrial')]_vars

\* the client gave up while the trial loop ran, and the run went on to the
\* last trial and answered 200
C12_Witness ==
    /\ aborted
    /\ pc = "done"
    /\ httpStatus = 200
    /\ Len(results) = cfg.numSimulations

\* what the code does instead: the trial loop is left only when every trial
\* has run
C12_LoopRunsToItsEnd ==
    [][(pc = "trials" /\ pc' # "trials") => Len(results) = cfg.numSimulations]_vars

-----------------------------------------------------------------------------
(* Claims about the trials of a run, under Spec *)

\* a trial has started and has not looked at a trade yet
AtTrialStart == pc = "trials" /\ inTrial /\ k = 1

FreshTrialState ==
    /\ portfolio = [cash |-> initialCash, positions |-> <<>>]
    /\ marketExposure = <<>>
    /\ dailyPnl = <<>>
    /\ marketPnl = <<>>
    /\ tradeLog = <<>>

\* what the trials share: the trade list, the context and the market cache
SharedByTrials ==
    <<relevantTrades, cfg, topTraders, traderVolumes, marketCache, db, config>>

\* C13: every trial starts from cash = the initial bankroll, no positions, no
\* exposure, empty PnL maps and an empty log, whatever earlier trials did;
\* and no step of the trial loop changes the trade list, the context or the
\* market cache.
C13_TrialsStartFreshAndShareNothing ==
    /\ [](AtTrialStart => FreshTrialState)
    /\ [][pc = "trials" => UNCHANGED SharedByTrials]_vars

\* a later trial starts fresh after a trial that bought, sold and logged
C13_Witness ==
    /\ AtTrialStart
    /\ i >= 1
    /\ FreshTrialState
    /\ sampleTradeLog # <<>>
    /\ allDailyPnl # <<>>
    /\ allMarketPnl # <<>>

-----------------------------------------------------------------------------
(* Claims about fills and their records, under SpecRunOrFill *)

\* the last entry of the trial's log: the record of the last fill as long as
\* the log is not full
LastLogged == tradeLog[Len(tradeLog)]

\* C14: for every fill, fillRatio is within [0, 1] and filled is true exactly
\* when fillRatio >= 0.95; the SimulatedTrade of a fill has partialFill set
\* exactly when filled is false, and its positionSizeUsd is the requested
\* size times fillRatio.
C14_FillRatioAndRecord ==
    /\ [](\A j \in DOMAIN fillOut :
             /\ fillOut[j].fillRatio >= 0
             /\ fillOut[j].fillRatio <= RatioOne
             /\ fillOut[j].filled <=> fillOut[j].fillRatio >= FilledRatio)
    /\ []((pc = "trials" /\ tradeLog # <<>> /\ Len(tradeLog) < MaxTradeLog) =>
             /\ LastLogged.partialFill <=> ~fillOut[1].filled
             /\ LastLogged.positionSizeUsd
                   = ActualSizeUsd(fillIn[1].sizeUsd, fillOut[1].fillRatio)
             /\ LastLogged.actualEntryPrice = fillOut[1].avgPrice
             /\ LastLogged.slippageBps = fillOut[1].slippageBps)
    /\ [][(pc = "trials" /\ Len(tradeLog') = Len(tradeLog) + 1) =>
             LET logged == tradeLog'[Len(tradeLog')]
             IN  /\ logged.partialFill <=> ~fillOut'[1].filled
                 /\ logged.positionSizeUsd
                       = ActualSizeUsd(fillIn'[1].sizeUsd, fillOut'[1].fillRatio)
                 /\ logged.actualEntryPrice = fillOut'[1].avgPrice
                 /\ logged.slippageBps = fillOut'[1].slippageBps]_vars

\* a call with a liquidity context that is filled to less than 95 %
C14_Witness ==
    \E j \in DOMAIN fillOut :
        /\ fillIn[j].orderbook # <<>>
        /\ fillOut[j].fillRatio > 0
        /\ fillOut[j].fillRatio < FilledRatio
        /\ ~fillOut[j].filled

\* a trial has logged the fill of a trade whose size the exposure cap trimmed
C14_RecordedInTrial ==
    /\ pc = "trials"
    /\ inTrial
    /\ Len(tradeLog) = 2
    /\ fillIn[1].sizeUsd < RequestedSize(LastLogged.originalTrade)
    /\ LastLogged.positionSizeUsd = fillIn[1].sizeUsd
    /\ ~LastLogged.partialFill

-----------------------------------------------------------------------------
(* Claims about the report, under Spec *)

\* the market of allMarketPnl entry j is one of the reported contributions
Included(j) ==
    \E a \in DOMAIN marketContributions :
        marketContributions[a].conditionId = allMarketPnl[j].key

\* the contributions have been ranked
Ranked == pc \in {"names", "done"}

\* C15: the report's market contributions are at most 10 markets, in
\* non-increasing order of mean PnL contribution across the trials, and no
\* market left out has a greater mean contribution than one that is included.
C15_TopMarketsByMean ==
    Ranked =>
        /\ Len(marketContributions) <= 10
        /\ Len(marketContributions) = Min(10, Len(allMarketPnl))
        /\ \A a, b \in DOMAIN marketContributions :
              a < b => marketContributions[a].pnlContribution
                          >= marketContributions[b].pnlContribution
        /\ \A a, b \in DOMAIN marketContributions :
              a # b => marketContributions[a].conditionId
                          # marketContributions[b].conditionId
        /\ \A a \in DOMAIN marketContributions :
              /\ Has(allMarketPnl, marketContributions[a].conditionId)
              /\ marketContributions[a].pnlContribution
                    = mean(Get(allMarketPnl, marketContributions[a].conditionId, <<>>))
        /\ \A j \in DOMAIN allMarketPnl :
              ~Included(j) =>
                 \A a \in DOMAIN marketContributions :
                    mean(allMarketPnl[j].val) <= marketContributions[a].pnlContribution

\* a report over more than 10 markets: those left out contribute strictly
\* less than the last one kept, and the first market of the map is not the
\* first of the report
C15_Witness ==
    /\ pc = "done"
    /\ Len(allMarketPnl) > 10
    /\ Len(marketContributions) = 10
    /\ marketContributions[1].conditionId # allMarketPnl[1].key
    /\ \E j \in DOMAIN allMarketPnl :
          /\ ~Included(j)
          /\ mean(allMarketPnl[j].val) < marketContributions[10].pnlContribution

-----------------------------------------------------------------------------
(* Claims about the accounts of a trial, under Spec *)

SumVals(m) == SumSeq([j \in DOMAIN m |-> m[j].val])

Abs(x) == IF x < 0 THEN 0 - x ELSE x

\* totalPnlUsd of the trial that has just returned, in cents
TotalPnlUsd == portfolio.cash - initialCash + UnrealizedPnl(Positions)

\* what was paid for the shares still held: average price times size
CostOfHoldings ==
    SumSeq([j \in DOMAIN Positions |->
               (Positions[j].val.avgPrice * Positions[j].val.size) \div PriceScale])

\* one cent for each quotient the fixed-point computation rounded
Rounding == 2 * Len(tradeLog) + 2 * Len(Positions)

\* C16: for every trial, the final PnL before currency conversion
\* (cash - initial cash + unrealized PnL) equals the sum over the markets of
\* the trial's per-market PnL buckets, that is realized plus unrealized PnL;
\* a trial that only buys and holds reports the sum of
\* (exit price - average price) x size over its positions.
C16_TotalIsSumOfMarketBuckets ==
    TrialReturned => Abs(TotalPnlUsd - SumVals(marketPnl)) <= Rounding

\* a trial that bought and still holds has returned: its total PnL is below
\* the sum of its market buckets by what the holdings cost
C16_Witness ==
    /\ TrialReturned
    /\ \E j \in DOMAIN Positions : Residual(Positions[j].val)
    /\ CostOfHoldings > 100
    /\ SumVals(marketPnl) - TotalPnlUsd > 100
    /\ Abs(SumVals(marketPnl) - TotalPnlUsd - CostOfHoldings) <= Rounding

\* what the code computes: the sum of the market buckets less the cost of the
\* shares still held
C16_TotalLessCostOfHoldings ==
    TrialReturned =>
        Abs(TotalPnlUsd - (SumVals(marketPnl) - CostOfHoldings)) <= Rounding

-----------------------------------------------------------------------------
(* Claims about the exposure cap, under Spec *)

HeldSize(positions, t) == HeldBefore(positions, t)

\* t is a SELL, large enough to be copied, of a position that is held, in a
\* market whose bought notional has reached the cap
SellAtCap(t) ==
    /\ t.side = "SELL"
    /\ TradeUsd(t) >= cfg.minTradeUsd * 100
    /\ HeldSize(Positions, t) > 0
    /\ Get(marketExposure, t.conditionId, 0) >= maxExposureUsd

\* the loop over the trades takes trade k
TakesTrade == pc = "trials" /\ inTrial /\ k <= Len(relevantTrades) /\ k' = k + 1

\* C17: the exposure cap restricts only buying: where a market's bought
\* notional has reached bankroll x maxExposurePct, a later SELL of a position
\* held in that market is still executed: the position is reduced and its
\* PnL realized.
C17_SellAtCapIsExecuted ==
    [][(TakesTrade /\ SellAtCap(relevantTrades[k])) =>
          /\ HeldSize(portfolio'.positions, relevantTrades[k])
                < HeldSize(Positions, relevantTrades[k])
          /\ Has(marketPnl', relevantTrades[k].conditionId)
          /\ Len(tradeLog') = Len(tradeLog) + 1]_vars

\* the SELL of a position bought up to the cap has been passed over: the
\* position is whole, nothing is realized, nothing more is logged
C17_Witness ==
    /\ pc = "trials"
    /\ inTrial
    /\ k = 3
    /\ relevantTrades[1].side = "BUY"
    /\ SellAtCap(relevantTrades[2])
    /\ Len(tradeLog) = 1
    /\ HeldSize(Positions, relevantTrades[2]) = tradeLog[1].positionSize
    /\ marketPnl = <<>>
    /\ dailyPnl = <<>>

\* below the cap a SELL of a held position is executed as long as the
\* headroom left is at least $1
C17_SellBelowCapIsExecuted ==
    [][(/\ TakesTrade
        /\ relevantTrades[k].side = "SELL"
        /\ TradeUsd(relevantTrades[k]) >= cfg.minTradeUsd * 100
        /\ HeldSize(Positions, relevantTrades[k]) > 0
        /\ maxExposureUsd - Get(marketExposure, relevantTrades[k].conditionId, 0) >= 100)
       => HeldSize(portfolio'.positions, relevantTrades[k])
             < HeldSize(Positions, relevantTrades[k])]_vars

\* the filled BUY notional of the log's entries for a market
BoughtNotional(log, conditionId) ==
    SumSeq([j \in DOMAIN log |->
               IF log[j].originalTrade.side = "BUY"
                  /\ log[j].originalTrade.conditionId = conditionId
               THEN log[j].positionSizeUsd ELSE 0])

\* what marketExposure records for every market is the BUY notional filled in
\* it so far, and it is within the limit
ExposureWithinCap ==
    \A j \in DOMAIN marketExposure :
       /\ marketExposure[j].val = BoughtNotional(tradeLog, marketExposure[j].key)
       /\ marketExposure[j].val <= maxExposureUsd

\* the size handed to the fill is the requested size or, if smaller, the
\* headroom left in the market
FilledWithinHeadroom ==
    (TakesTrade /\ Len(tradeLog') = Len(tradeLog) + 1) =>
        fillIn'[1].sizeUsd =
            Min(RequestedSize(relevantTrades[k]),
                maxExposureUsd - Get(marketExposure, relevantTrades[k].conditionId, 0))

\* C18: in every trial, after any sequence of trades, the cumulative filled
\* BUY notional recorded for each market is at most bankroll (USD) x
\* maxExposurePct / 100; a trade's requested size is trimmed to the remaining
\* headroom before it is filled.
C18_ExposureNeverAboveCap ==
    /\ [](pc = "trials" => ExposureWithinCap)
    /\ [][FilledWithinHeadroom]_vars

\* a BUY was trimmed to the headroom and filled: the market is at its cap
C18_Witness ==
    /\ pc = "trials"
    /\ inTrial
    /\ tradeLog # <<>>
    /\ fillIn # <<>>
    /\ LET t == LastLogged.originalTrade
       IN  /\ t.side = "BUY"
           /\ fillIn[1].sizeUsd < RequestedSize(t)
           /\ LastLogged.positionSizeUsd > 0
           /\ Get(marketExposure, t.conditionId, 0) = maxExposureUsd

-----------------------------------------------------------------------------
(* Claims about the portfolio of a trial, under Spec *)

\* the entry the turn of the loop has just logged
Logged == tradeLog'[Len(tradeLog')]

\* the loop takes a trade of the side and fills it
Fills(side) ==
    /\ TakesTrade
    /\ relevantTrades[k].side = side
    /\ Len(tradeLog') = Len(tradeLog) + 1

\* the positions other than the trade's are left alone
OthersKept(t) ==
    \A j \in DOMAIN Positions :
       Positions[j].key # PosKey(t) =>
          /\ Has(portfolio'.positions, Positions[j].key)
          /\ Get(portfolio'.positions, Positions[j].key, <<>>) = Positions[j].val

BuyEffect ==
    LET t   == relevantTrades[k]
        s   == Logged.positionSize
        p   == Logged.actualEntryPrice
        old == Get(Positions, PosKey(t), <<>>)
        new == Get(portfolio'.positions, PosKey(t), <<>>)
    IN  /\ s > 0
        /\ Has(portfolio'.positions, PosKey(t))
        /\ new.size = HeldSize(Positions, t) + s
        /\ IF Has(Positions, PosKey(t))
           THEN /\ new.avgPrice = (old.avgPrice * old.size + p * s) \div (old.size + s)
                /\ new.avgPrice >= Min(old.avgPrice, p)
                /\ new.avgPrice <= Max(old.avgPrice, p)
           ELSE new.avgPrice = p
        /\ portfolio.cash - portfolio'.cash = Logged.positionSizeUsd
        \* the filled notional is p x s, to the cent
        /\ Abs(Logged.positionSizeUsd - (p * s) \div PriceScale) <= 1
        /\ OthersKept(t)

\* C19: a BUY of s shares at fill price p into a position of size S and
\* average price A yields size S + s and average price (A x S + p x s) / (S + s)
\* (p for a new position), and reduces cash by exactly the filled notional
\* p x s; the new average price lies between A and p.
C19_BuyAveragesIn == [][Fills("BUY") => BuyEffect]_vars

\* a second BUY at another price has been averaged into a position: its
\* average price is strictly between the two fill prices
C19_Witness ==
    /\ pc = "trials"
    /\ inTrial
    /\ Len(tradeLog) >= 2
    /\ LastLogged.originalTrade.side = "BUY"
    /\ \E a \in 1..(Len(tradeLog) - 1) :
          LET first == tradeLog[a]
              pos   == Get(Positions, PosKey(LastLogged.originalTrade), <<>>)
          IN  /\ first.originalTrade.side = "BUY"
              /\ PosKey(first.originalTrade) = PosKey(LastLogged.originalTrade)
              /\ first.actualEntryPrice # LastLogged.actualEntryPrice
              /\ pos.size = first.positionSize + LastLogged.positionSize
              /\ pos.avgPrice > Min(first.actualEntryPrice, LastLogged.actualEntryPrice)
              /\ pos.avgPrice < Max(first.actualEntryPrice, LastLogged.actualEntryPrice)

\* the entries of the map other than the key's are left alone
BucketsKept(m, mNext, key) ==
    \A j \in DOMAIN m :
       m[j].key # key => Has(mNext, m[j].key) /\ Get(mNext, m[j].key, 0) = m[j].val

\* new Date(trade.timestamp * 1000).toISOString().split('T')[0]: the UTC day
DateKey(t) == t.timestamp \div Day

SellEffect ==
    LET t   == relevantTrades[k]
        p   == Logged.actualEntryPrice
        old == Get(Positions, PosKey(t), <<>>)
        new == Get(portfolio'.positions, PosKey(t), <<>>)
        q   == Min(Logged.positionSize, old.size)
        pnl == ((p - old.avgPrice) * q) \div PriceScale
    IN  /\ q > 0
        /\ Get(dailyPnl', DateKey(t), 0) = Get(dailyPnl, DateKey(t), 0) + pnl
        /\ Has(dailyPnl', DateKey(t))
        /\ BucketsKept(dailyPnl, dailyPnl', DateKey(t))
        /\ Get(marketPnl', t.conditionId, 0) = Get(marketPnl, t.conditionId, 0) + pnl
        /\ Has(marketPnl', t.conditionId)
        /\ BucketsKept(marketPnl, marketPnl', t.conditionId)
        /\ portfolio'.cash = portfolio.cash + (q * p) \div PriceScale
        /\ new.size = old.size - q
        /\ new.avgPrice = old.avgPrice
        /\ OthersKept(t)

\* realized PnL from the books: the cash that came back, plus what the
\* shares still held have cost, less the cash the trial started with
RealizedPnl == portfolio.cash + CostOfHoldings - initialCash

\* the buckets change only on an executed SELL
OnlySellsRealize ==
    (pc = "trials" /\ inTrial /\ inTrial' /\ dailyPnl' # dailyPnl) =>
        Fills("SELL") /\ HeldSize(Positions, relevantTrades[k]) > 0

\* C20: each executed SELL adds (fill price - position average price) x sold
\* quantity to both the daily bucket of the original trade's calendar date
\* and the bucket of the trade's market, and adds sold quantity x fill price
\* to cash; after any sequence of trades the sum of the daily buckets equals
\* the total realized PnL.
C20_SellRealizesPnl ==
    /\ [][(Fills("SELL") /\ HeldSize(Positions, relevantTrades[k]) > 0) => SellEffect]_vars
    /\ [][OnlySellsRealize]_vars
    /\ []((pc = "trials" /\ inTrial) =>
             /\ SumVals(dailyPnl) = SumVals(marketPnl)
             /\ Abs(SumVals(dailyPnl) - RealizedPnl) <= Rounding)

\* SELLs of parts of a position on two days have realized PnL in two daily
\* buckets, and shares are still held
C20_Witness ==
    /\ pc = "trials"
    /\ inTrial
    /\ tradeLog # <<>>
    /\ LastLogged.originalTrade.side = "SELL"
    /\ Has(dailyPnl, DateKey(LastLogged.originalTrade))
    /\ Get(dailyPnl, DateKey(LastLogged.originalTrade), 0) # 0
    /\ Get(marketPnl, LastLogged.originalTrade.conditionId, 0) = SumVals(dailyPnl)
    /\ HeldSize(Positions, LastLogged.originalTrade) > 0
    /\ portfolio.cash > initialCash
    /\ \E j \in DOMAIN dailyPnl :
          /\ dailyPnl[j].key # DateKey(LastLogged.originalTrade)
          /\ dailyPnl[j].val # 0

\* what one turn of the trial may do to the position held under entry j
PositionFrame(j) ==
    LET key == Positions[j].key
        old == Positions[j].val
        new == Get(portfolio'.positions, key, <<>>)
    IN  /\ Has(portfolio'.positions, key)
        /\ new.avgPrice # old.avgPrice =>
              Fills("BUY") /\ PosKey(relevantTrades[k]) = key
        /\ new.size # old.size =>
              TakesTrade /\ PosKey(relevantTrades[k]) = key

\* C21: a SELL never changes the average price of the position it sells
\* from, and a trade on one (market, outcome) never changes the size or
\* average price of any other position; a position's average price changes
\* only when a BUY adds to that same position.
C21_AveragePriceMovesOnlyOnOwnBuy ==
    [][(pc = "trials" /\ inTrial /\ inTrial') =>
          \A j \in DOMAIN Positions : PositionFrame(j)]_vars

\* a SELL at another price has taken shares from a position whose average
\* price is still the fill price of its BUY
C21_Witness ==
    /\ pc = "trials"
    /\ inTrial
    /\ Len(tradeLog) >= 2
    /\ LastLogged.originalTrade.side = "SELL"
    /\ tradeLog[1].originalTrade.side = "BUY"
    /\ PosKey(tradeLog[1].originalTrade) = PosKey(LastLogged.originalTrade)
    /\ LET pos == Get(Positions, PosKey(LastLogged.originalTrade), <<>>)
       IN  /\ pos.avgPrice = tradeLog[1].actualEntryPrice
           /\ pos.avgPrice # LastLogged.actualEntryPrice
           /\ pos.size < tradeLog[1].positionSize

-----------------------------------------------------------------------------
(* Claims about the marking of residual positions, under Spec *)

\* the loop over the trades is over: the positions are marked next
AtMarking == pc = "trials" /\ inTrial /\ k > Len(relevantTrades)

\* the exit price by the rule: 1.0 / 0.0 on a settled market, else the last
\* price of the held outcome
ExitByRule(pos, market) ==
    IF market.isClosed /\ market.winningOutcome # ""
    THEN IF toUpperCase(market.winningOutcome) = toUpperCase(pos.outcome)
         THEN PriceScale ELSE 0
    ELSE IF toUpperCase(pos.outcome) = "NO" THEN PriceScale - market.lastPriceYes
         ELSE market.lastPriceYes

MarkedByRule(pos) ==
    LET market == db.markets[pos.conditionId]
    IN  (Residual(pos) /\ pos.conditionId \in DOMAIN db.markets
           /\ (market.lastPriceKnown \/ (market.isClosed /\ market.winningOutcome # "")))
        => ExitPrice(pos) = ExitByRule(pos, market)

\* C22: at the end of a trial every residual position is marked at 1.0 if its
\* market is settled and the held outcome is the winning one, at 0.0 if
\* settled and it is not, and otherwise at the market's last known price for
\* the held outcome (the primary-outcome price, or 1 minus it for the
\* secondary outcome), for every last price in [0,1].
C22_MarkedAtSettlementOrLastPrice ==
    AtMarking => \A j \in DOMAIN Positions : MarkedByRule(Positions[j].val)

\* a residual position in a market that is not settled and last traded at 0
C22_Witness ==
    /\ AtMarking
    /\ \E j \in DOMAIN Positions :
          LET pos == Positions[j].val
          IN  /\ Residual(pos)
              /\ pos.conditionId \in DOMAIN db.markets
              /\ db.markets[pos.conditionId].lastPriceKnown
              /\ db.markets[pos.conditionId].lastPriceYes = 0
              /\ ExitPrice(pos) = DefaultLastPrice

\* the rule is followed for every last price above 0
C22_MarkedAtPositiveLastPrice ==
    AtMarking =>
       \A j \in DOMAIN Positions :
          (Positions[j].val.conditionId \in DOMAIN db.markets
             /\ db.markets[Positions[j].val.conditionId].lastPriceYes = 0
             /\ ~db.markets[Positions[j].val.conditionId].isClosed)
          \/ MarkedByRule(Positions[j].val)

-----------------------------------------------------------------------------
(* Further claims about calculateRealisticFill, under SpecFill *)

\* the slippage of call j before market impact, in 1/100 bp
BaseSlippage(j) ==
    IF HasBook(j)
    THEN DepthSlippage(fillIn[j].sizeUsd, Book(j).spreadBps, NearDepth(j), WideDepth(j))
    ELSE Min(MaxBaseSlippage, ISqrt(100 * fillIn[j].sizeUsd))

\* sqrt(notional / dailyVolume) x 100 bps for call j
ImpactTerm(j) == ImpactRule(fillIn[j].sizeUsd, TRUE, fillIn[j].dailyVolume)

\* the slippage and the price of call j include the impact term
ImpactIncluded(j) ==
    LET slip  == BaseSlippage(j) + ImpactTerm(j)
        price == IF HasBook(j) THEN Book(j).midPrice ELSE fillIn[j].basePrice
    IN  /\ fillOut[j].slippageBps = (IF HasBook(j) THEN RoundBps(slip) ELSE slip)
        /\ fillOut[j].avgPrice = ClampPrice(SlippedPrice(fillIn[j].side, price, slip))

\* C23: whenever the market-impact flag is enabled and daily volume is
\* positive, the slippage of a fill includes the term
\* sqrt(notional / dailyVolume) x 100 bps on top of the base slippage, both
\* when a liquidity context is supplied and when none is, and the fill price
\* reflects that added slippage.
C23_ImpactAddedWithAndWithoutBook ==
    \A j \in DOMAIN fillIn : ImpactApplies(j) => ImpactIncluded(j)

\* two calls without a liquidity context that differ in the flag only: the
\* impact term is a basis point or more and the two results are the same
C23_Witness ==
    /\ Len(fillIn) = 2
    /\ ~HasBook(1)
    /\ fillIn[1].dailyVolume > 0
    /\ fillIn[1].marketImpactEnabled # fillIn[2].marketImpactEnabled
    /\ ImpactTerm(1) >= CentiBps
    /\ fillOut[1] = fillOut[2]
    /\ fillOut[1].slippageBps = BaseSlippage(1)

\* with a liquidity context the impact term is added
C23_ImpactAddedWithBook ==
    \A j \in DOMAIN fillIn : (HasBook(j) /\ ImpactApplies(j)) => ImpactIncluded(j)

\* call b repeats call a with a notional at least as large, without market
\* impact, on a book whose near-touch depth is within its wider tier
LargerOrder(a, b) ==
    /\ HasBook(a)
    /\ NearDepth(a) <= WideDepth(a)
    /\ ~fillIn[a].marketImpactEnabled
    /\ fillIn[a].sizeUsd <= fillIn[b].sizeUsd
    /\ fillIn[b] = [fillIn[a] EXCEPT !.sizeUsd = fillIn[b].sizeUsd]

\* C24: for a fixed side and liquidity context with near-touch depth <=
\* wider-tier depth and market impact disabled, the slippageBps returned by
\* calculateRealisticFill is non-decreasing in the requested notional and
\* never exceeds 500: an order inside the wider tier never gets more
\* slippage than an order beyond it.
C24_SlippageMonotoneAndCapped ==
    \A a, b \in DOMAIN fillIn :
        LargerOrder(a, b) =>
            /\ fillOut[a].slippageBps <= fillOut[b].slippageBps
            /\ fillOut[b].slippageBps <= LargeOrderSlippage

\* an order inside the wider tier with more than 500 bps of slippage, and a
\* larger one beyond the tier with 500
C24_Witness ==
    /\ Len(fillIn) = 2
    /\ LargerOrder(1, 2)
    /\ fillIn[1].sizeUsd > NearDepth(1)
    /\ fillIn[1].sizeUsd <= WideDepth(1)
    /\ BeyondBothTiers(2)
    /\ fillOut[1].slippageBps > LargeOrderSlippage
    /\ fillOut[2].slippageBps = LargeOrderSlippage
    /\ fillOut[1].fillRatio = RatioOne

\* up to the near-touch depth and beyond the wider tier the slippage is
\* within 500 bps when the spread is
C24_CappedOutsideTheMiddleTier ==
    \A j \in DOMAIN fillIn :
        (HasBook(j) /\ ~ImpactApplies(j)
           /\ (WithinNearDepth(j) \/ BeyondBothTiers(j))
           /\ Book(j).spreadBps * 50 <= LargeOrderSlippage)
        => fillOut[j].slippageBps <= LargeOrderSlippage

-----------------------------------------------------------------------------
(* Claims about cash, skipped trades, defaults, sizing and the log, under Spec *)

\* C25: in every trial, after any sequence of trades, the portfolio's cash
\* balance is >= 0: the simulated follower never spends more on buys than
\* the bankroll plus the proceeds of earlier sells.
C25_CashNeverNegative == (pc = "trials" /\ inTrial) => portfolio.cash >= 0

\* BUYs were filled beyond the cash left: the balance is below zero
C25_Witness ==
    /\ pc = "trials"
    /\ inTrial
    /\ tradeLog # <<>>
    /\ LastLogged.originalTrade.side = "BUY"
    /\ portfolio.cash < 0
    /\ portfolio.cash + LastLogged.positionSizeUsd >= 0
    /\ dailyPnl = <<>>

\* cash never falls below the bankroll less the exposure allowed in the
\* markets bought
C25_CashAboveBankrollLessExposure ==
    (pc = "trials" /\ inTrial) =>
        portfolio.cash >= initialCash - SumVals(marketExposure)

\* the trade is below the minimum notional, or its size after the exposure
\* trim is below 1 USD
Skipped(t) ==
    \/ TradeUsd(t) < cfg.minTradeUsd * 100
    \/ LET positionSizeUsd ==
               TrimToExposure(RequestedSize(t), Get(marketExposure, t.conditionId, 0))
       IN  positionSizeUsd # NaN /\ positionSizeUsd < 100

\* C26: a trade that is skipped, because its notional is below minTradeUsd or
\* because its size after exposure trimming is below 1 USD, changes nothing
\* in the trial: cash, positions, per-market exposure and the daily and
\* market PnL maps are unchanged and no entry is appended to the fill log;
\* every logged fill has a positive size.
C26_SkippedTradeChangesNothing ==
    /\ [][(TakesTrade /\ Skipped(relevantTrades[k])) =>
             UNCHANGED <<portfolio, marketExposure, dailyPnl, marketPnl, tradeLog>>]_vars
    /\ [](\A j \in DOMAIN tradeLog :
             tradeLog[j].positionSize > 0 /\ tradeLog[j].positionSizeUsd > 0)

\* a trade without notional was not skipped: the log holds a fill whose size
\* is not a number
C26_Witness ==
    /\ pc = "trials"
    /\ inTrial
    /\ tradeLog # <<>>
    /\ TradeUsd(LastLogged.originalTrade) = 0
    /\ LastLogged.positionSize = NaN
    /\ LastLogged.positionSizeUsd = NaN
    /\ LastLogged.originalTrade = relevantTrades[k - 1]

\* a skipped trade changes nothing, and the fill logged for a trade with a
\* notional above 0 has a positive size
C26_SkipChangesNothingAndSizedFillsPositive ==
    /\ [][(TakesTrade /\ Skipped(relevantTrades[k])) =>
             UNCHANGED <<portfolio, marketExposure, dailyPnl, marketPnl, tradeLog>>]_vars
    /\ [](\A j \in DOMAIN tradeLog :
             TradeUsd(tradeLog[j].originalTrade) > 0 =>
                tradeLog[j].positionSize > 0 /\ tradeLog[j].positionSizeUsd > 0)

\* C27: when a trade's market has no snapshot in the pre-fetched cache, the
\* run does not fail: the trial fills the trade using an assumed daily volume
\* of 100000 and marks any residual position in that market at 0.5, for
\* either outcome.
C27_MissingMarketGetsDefaults ==
    /\ (pc = "trials" /\ inTrial /\ tradeLog # <<>>
          /\ LastLogged.originalTrade.conditionId \notin DOMAIN db.markets)
       => /\ fillIn[1].dailyVolume = DefaultDailyVolume
          /\ fillOut[1].avgPrice = LastLogged.actualEntryPrice
    /\ (pc = "trials" /\ (AtMarking \/ TrialReturned))
       => \A j \in DOMAIN Positions :
             (Residual(Positions[j].val)
                /\ Positions[j].val.conditionId \notin DOMAIN db.markets)
             => /\ ExitPrice(Positions[j].val) = DefaultLastPrice
                /\ 2 * DefaultLastPrice = PriceScale
                /\ error = ""
                /\ TrialReturned =>
                      Has(marketPnl, Positions[j].val.conditionId)
                      /\ Len(results) = i

\* a trial has returned with a No position in a market that is not cached
C27_Witness ==
    /\ TrialReturned
    /\ error = ""
    /\ fillIn # <<>>
    /\ fillIn[1].dailyVolume = DefaultDailyVolume
    /\ \E j \in DOMAIN Positions :
          /\ Residual(Positions[j].val)
          /\ Positions[j].val.outcome = "No"
          /\ Positions[j].val.conditionId \notin DOMAIN db.markets
          /\ ~Has(marketCache, Positions[j].val.conditionId)
          /\ ExitPrice(Positions[j].val) = DefaultLastPrice

\* the loop is about to size trade k: it has passed the minimum notional
AtSizing ==
    /\ pc = "trials"
    /\ inTrial
    /\ k <= Len(relevantTrades)
    /\ TradeUsd(relevantTrades[k]) >= cfg.minTradeUsd * 100

\* C28: before exposure trimming, every trade that reaches sizing gets a
\* requested size within fixed bounds: under the equal rule
\* max(5, min(50, bankrollUsd / 20)), and under the proportional rule (trade
\* notional / that trader's total in-window notional) x (bankrollUsd / number
\* of followed wallets) clamped to [5, 100]; the divisor is positive for
\* every such trade, including when minTradeUsd is 0.
C28_RequestedSizeWithinBounds ==
    AtSizing =>
       LET t == relevantTrades[k]
       IN  IF cfg.sizingRule = "equal"
           THEN /\ RequestedSize(t) = Max(500, Min(5000, initialCash \div 20))
                /\ RequestedSize(t) >= 500
                /\ RequestedSize(t) <= 5000
           ELSE /\ TraderVolume(t) > 0
                /\ RequestedSize(t) >= 500
                /\ RequestedSize(t) <= 10000
                /\ RequestedSize(t) =
                      Max(500, Min(10000, MulDiv(TradeUsd(t),
                                                 initialCash \div Len(topTraders),
                                                 TraderVolume(t))))

\* a trade without notional reaches proportional sizing with minTradeUsd 0:
\* the wallet's volume and the fallback are both 0 and the size is 0 / 0
C28_Witness ==
    /\ AtSizing
    /\ cfg.sizingRule = "proportional"
    /\ cfg.minTradeUsd = 0
    /\ TradeUsd(relevantTrades[k]) = 0
    /\ Get(traderVolumes, relevantTrades[k].walletAddress, 0) = 0
    /\ TraderVolume(relevantTrades[k]) = 0
    /\ RequestedSize(relevantTrades[k]) = NaN

\* the sizes are within their bounds for every trade with a notional above 0
C28_WithinBoundsForPositiveNotional ==
    (AtSizing /\ TradeUsd(relevantTrades[k]) > 0) =>
        /\ TraderVolume(relevantTrades[k]) > 0
        /\ RequestedSize(relevantTrades[k]) >= 500
        /\ RequestedSize(relevantTrades[k]) <=
              (IF cfg.sizingRule = "equal" THEN 5000 ELSE 10000)

-----------------------------------------------------------------------------
(* Claim about getQuickEstimate, under SpecEstimate *)

\* C29: for every non-empty followed-wallet leaderboard and every positive
\* bankroll, getQuickEstimate returns low <= mid <= high, whatever the signs
\* and spread of the wallets' ROI values.
C29_LowMidHighOrdered ==
    (estimate # <<>> /\ db.leaderboard # <<>> /\ estimate[1].bankrollGbp > 0) =>
        /\ estimate[1].estimatedPnlGbp.low <= estimate[1].estimatedPnlGbp.mid
        /\ estimate[1].estimatedPnlGbp.mid <= estimate[1].estimatedPnlGbp.high

\* one followed wallet with an ROI of 12 percent and a bankroll of 100 GBP:
\* low 3.60, mid 7.20, high 5.76
C29_Witness ==
    /\ estimate # <<>>
    /\ Len(db.leaderboard) = 1
    /\ db.leaderboard[1].roiPercent = 12
    /\ estimate[1].bankrollGbp = 100
    /\ estimate[1].estimatedPnlGbp.low = 36000
    /\ estimate[1].estimatedPnlGbp.mid = 72000
    /\ estimate[1].estimatedPnlGbp.high = 57600

\* the three figures are the bankroll times 0.3 of the lowest, 0.6 of the
\* mean and 0.48 of the highest ROI: ordered when the lowest ROI is not
\* above 0 and the mean is within 0.8 of the highest
C29_OrderedForSpreadRois ==
    (estimate # <<>> /\ db.leaderboard # <<>>) =>
        LET e   == estimate[1].estimatedPnlGbp
            lb  == db.leaderboard
            sum == SumSeq([j \in DOMAIN lb |-> lb[j].roiPercent])
        IN  (MinRoi(lb) <= 0 /\ sum >= 0 /\ 10 * sum <= 8 * MaxRoi(lb) * Len(lb))
            => (e.low <= e.mid /\ e.mid <= e.high)

\* C30: a trial's fill log never holds more than 50 entries however many
\* trades the trial processes, and the sample log placed in the report holds
\* at most 20 entries, all taken from the first trial only.
C30_LogAndSampleBounded ==
    /\ [](Len(tradeLog) <= MaxTradeLog /\ Len(sampleTradeLog) <= SampleLogSize)
    /\ [](report # <<>> => Len(report[1].sampleTradeLog) <= SampleLogSize)
    /\ []((pc = "trials" /\ i >= 1 /\ ~inTrial /\ i = 1) =>
             sampleTradeLog = FirstN(tradeLog, SampleLogSize))
    /\ [][(pc = "trials" /\ pc' = "trials" /\ sampleTradeLog' # sampleTradeLog) =>
             (i = 0 /\ i' = 1 /\ sampleTradeLog' = FirstN(tradeLog, SampleLogSize))]_vars
    /\ [][(report' # report /\ report' # <<>>) =>
             report'[1].sampleTradeLog = sampleTradeLog]_vars

\* a later trial has filled more than 50 trades: its log is full, and the
\* sample is still the first 20 fills of the first trial
C30_Witness ==
    /\ pc = "trials"
    /\ inTrial
    /\ i >= 1
    /\ k > MaxTradeLog + 2
    /\ Len(tradeLog) = MaxTradeLog
    /\ Len(sampleTradeLog) = SampleLogSize
    /\ tradeLog[MaxTradeLog].originalTrade = relevantTrades[MaxTradeLog]
    /\ sampleTradeLog # FirstN(tradeLog, SampleLogSize)

====
